---- MODULE Spec2Model ----
(***************************************************************************)
(* Model of the configuration subsystem of the Wails template: the INI     *)
(* loader (package config: LoadConfig, GetConfig, ReloadConfig,            *)
(* GetPublicConfig and their helpers), the struct validation it runs and   *)
(* the environment in which it runs (config.ini, APP_ENV, the file         *)
(* system).                                                                *)
(*                                                                         *)
(* Text is modelled as a sequence of one-character strings, so parsing,    *)
(* splitting and matching are computed and not assumed.  Durations are     *)
(* counted in seconds (Go counts nanoseconds; every duration the model     *)
(* handles is a whole number of seconds).                                  *)
(***************************************************************************)
EXTENDS Integers, Sequences, FiniteSets, TLC

(***************************************************************************)
(* String literals of the program.                                         *)
(***************************************************************************)
Development == <<"d", "e", "v", "e", "l", "o", "p", "m", "e", "n", "t">>
Staging == <<"s", "t", "a", "g", "i", "n", "g">>
Production == <<"p", "r", "o", "d", "u", "c", "t", "i", "o", "n">>
LogLevelDebug == <<"d", "e", "b", "u", "g">>
LogLevelInfo == <<"i", "n", "f", "o">>
LogLevelWarn == <<"w", "a", "r", "n">>
LogLevelError == <<"e", "r", "r", "o", "r">>
LogFormatJSON == <<"j", "s", "o", "n">>
LogFormatText == <<"t", "e", "x", "t">>
LogOutputConsole == <<"c", "o", "n", "s", "o", "l", "e">>
LogOutputFile == <<"f", "i", "l", "e">>
LogOutputBoth == <<"b", "o", "t", "h">>
DefaultAppName == <<"C", "S", "m", "a", "r", "t", " ", "W", "a", "i", "l", "s", " ", "A", "p", "p">>
DefaultVersion == <<"1", ".", "0", ".", "0">>
DefaultUserAgent == <<"C", "S", "m", "a", "r", "t", "-", "W", "a", "i", "l", "s", "/", "1", ".", "0">>
DefaultLogFilePath == <<"l", "o", "g", "s", "/", "a", "p", "p", ".", "l", "o", "g">>
DefaultDBHost == <<"l", "o", "c", "a", "l", "h", "o", "s", "t">>
DefaultDBName == <<"c", "s", "m", "a", "r", "t">>
SSLDisable == <<"d", "i", "s", "a", "b", "l", "e">>
SSLRequire == <<"r", "e", "q", "u", "i", "r", "e">>
SSLVerifyCA == <<"v", "e", "r", "i", "f", "y", "-", "c", "a">>
SSLVerifyFull == <<"v", "e", "r", "i", "f", "y", "-", "f", "u", "l", "l">>
EvictLRU == <<"l", "r", "u">>
EvictLFU == <<"l", "f", "u">>
EvictFIFO == <<"f", "i", "f", "o">>

(***************************************************************************)
(* Durations, in seconds.                                                  *)
(***************************************************************************)
Second == 1
Minute == 60 * Second
Hour == 60 * Minute

(***************************************************************************)
(* Characters and number parsing.                                          *)
(***************************************************************************)
Digits == {"0", "1", "2", "3", "4", "5", "6", "7", "8", "9"}

DigitVal(c) ==
  CASE c = "0" -> 0 [] c = "1" -> 1 [] c = "2" -> 2 [] c = "3" -> 3
    [] c = "4" -> 4 [] c = "5" -> 5 [] c = "6" -> 6 [] c = "7" -> 7
    [] c = "8" -> 8 [] c = "9" -> 9

AllIn(s, chars) == \A i \in 1..Len(s) : s[i] \in chars

RECURSIVE BaseValue(_, _)
BaseValue(s, base) ==
  IF s = <<>> THEN 0
  ELSE BaseValue(SubSeq(s, 1, Len(s) - 1), base) * base + DigitVal(s[Len(s)])

Failed == [ok |-> FALSE, val |-> 0]

Parsed(v) == [ok |-> TRUE, val |-> v]

Signed(s) == s # <<>> /\ s[1] \in {"+", "-"}

Unsigned(s) == IF Signed(s) THEN Tail(s) ELSE s

Negate(s, v) == IF s # <<>> /\ s[1] = "-" THEN 0 - v ELSE v

\* strconv.Atoi: an optional sign and one or more decimal digits.
Atoi(s) ==
  IF Unsigned(s) # <<>> /\ AllIn(Unsigned(s), Digits)
    THEN Parsed(Negate(s, BaseValue(Unsigned(s), 10)))
    ELSE Failed

\* ini Key.Int, strconv.ParseInt(s, 0, 64): as Atoi, except that a leading
\* zero selects base 8.  (The prefixes 0x, 0b, 0o and the digit separator _
\* of base 0 are outside the alphabet of the values the model feeds it.)
KeyInt(s) ==
  IF Unsigned(s) = <<>> \/ ~AllIn(Unsigned(s), Digits) THEN Failed
  ELSE IF Len(Unsigned(s)) > 1 /\ Unsigned(s)[1] = "0"
    THEN IF AllIn(Unsigned(s), {"0", "1", "2", "3", "4", "5", "6", "7"})
           THEN Parsed(Negate(s, BaseValue(Unsigned(s), 8)))
           ELSE Failed
    ELSE Parsed(Negate(s, BaseValue(Unsigned(s), 10)))

BoolTrue ==
  { <<"1">>, <<"t">>, <<"T">>, <<"t", "r", "u", "e">>, <<"T", "R", "U", "E">>,
    <<"T", "r", "u", "e">>, <<"Y", "E", "S">>, <<"y", "e", "s">>,
    <<"Y", "e", "s">>, <<"y">>, <<"O", "N">>, <<"o", "n">>, <<"O", "n">> }

BoolFalse ==
  { <<"0">>, <<"f">>, <<"F">>, <<"f", "a", "l", "s", "e">>,
    <<"F", "A", "L", "S", "E">>, <<"F", "a", "l", "s", "e">>, <<"N", "O">>,
    <<"n", "o">>, <<"N", "o">>, <<"n">>, <<"O", "F", "F">>,
    <<"o", "f", "f">>, <<"O", "f", "f">> }

\* ini Key.Bool (parseBool): the two literal lists above, anything else fails.
KeyBool(s) ==
  IF s \in BoolTrue THEN [ok |-> TRUE, val |-> TRUE]
  ELSE IF s \in BoolFalse THEN [ok |-> TRUE, val |-> FALSE]
  ELSE [ok |-> FALSE, val |-> FALSE]

\* Length of the longest prefix of s whose characters are all in chars.
RECURSIVE PrefixLen(_, _)
PrefixLen(s, chars) ==
  IF s = <<>> \/ s[1] \notin chars THEN 0 ELSE 1 + PrefixLen(Tail(s), chars)

Drop(s, n) == SubSeq(s, n + 1, Len(s))

UnitSeconds(u) ==
  CASE u = <<"s">> -> Second
    [] u = <<"m">> -> Minute
    [] u = <<"h">> -> Hour
    [] OTHER -> 0

(***************************************************************************)
(* 64-bit arithmetic.  A time.Duration is an int64 of nanoseconds and an   *)
(* int is 64 bits wide; the model keeps durations in whole seconds, so the *)
(* places where the width matters compute on 64-bit words, written as four *)
(* 16-bit limbs, least significant first.                                  *)
(***************************************************************************)
Limb == 65536

\* The largest duration the model tells apart, 2^31 - 1 seconds (two limbs
\* less the sign): it stands for every duration of that many seconds or more.
Huge == (Limb \div 2 - 1) * Limb + (Limb - 1)

\* Decimal digit strings without leading zeros, compared as numbers.
RECURSIVE StripZeros(_)
StripZeros(s) ==
  IF Len(s) > 1 /\ s[1] = "0" THEN StripZeros(Tail(s)) ELSE s

RECURSIVE LexLeq(_, _)
LexLeq(a, b) ==
  IF a = <<>> THEN TRUE
  ELSE IF DigitVal(a[1]) # DigitVal(b[1]) THEN DigitVal(a[1]) < DigitVal(b[1])
  ELSE LexLeq(Tail(a), Tail(b))

DecLeq(a, b) ==
  Len(StripZeros(a)) < Len(b)
    \/ (Len(StripZeros(a)) = Len(b) /\ LexLeq(StripZeros(a), b))

\* x * m + c on a word, the carry out of the top limb dropped (mod 2^64).
RECURSIVE MulAdd(_, _, _, _)
MulAdd(x, m, c, i) ==
  IF i > Len(x) THEN <<>>
  ELSE <<(x[i] * m + c) % Limb>> \o MulAdd(x, m, (x[i] * m + c) \div Limb, i + 1)

\* The quotient of a word by d, and the remainder, from the top limb down.
RECURSIVE DivQ(_, _, _, _)
DivQ(x, d, i, rem) ==
  IF i = 0 THEN <<>>
  ELSE DivQ(x, d, i - 1, (rem * Limb + x[i]) % d) \o <<(rem * Limb + x[i]) \div d>>

Word(n) == <<n % Limb, n \div Limb, 0, 0>>

\* The decimal digits s as a word.
RECURSIVE FromDecimal(_)
FromDecimal(s) ==
  IF s = <<>> THEN Word(0)
  ELSE MulAdd(FromDecimal(SubSeq(s, 1, Len(s) - 1)), 10, DigitVal(s[Len(s)]), 1)

\* Two's complement negation.
Neg(x) == MulAdd([i \in 1..Len(x) |-> Limb - 1 - x[i]], 1, 1, 1)

IsNegative(x) == x[Len(x)] >= Limb \div 2

Thousand(x) == MulAdd(x, 1000, 0, 1)

Thousandth(x) == DivQ(x, 1000, Len(x), 0)

\* time.Duration(seconds) * time.Second: seconds * 10^9, wrapped to int64.
TimesSecond(x) == Thousand(Thousand(Thousand(x)))

\* A non-negative word as a number of the model.
ToInt(x) ==
  IF x[3] = 0 /\ x[4] = 0 /\ x[2] < Limb \div 2 THEN x[1] + Limb * x[2] ELSE Huge

\* The whole seconds of an int64 of nanoseconds, truncated toward zero.
WholeSeconds(ns) ==
  IF IsNegative(ns) THEN 0 - ToInt(Thousandth(Thousandth(Thousandth(Neg(ns)))))
  ELSE ToInt(Thousandth(Thousandth(Thousandth(ns))))

\* strconv.Atoi on a 64-bit platform: an optional sign and decimal digits
\* of magnitude at most 2^63 - 1 (2^63 when negative); more is a range error.
AtoiWord(s) ==
  IF Unsigned(s) = <<>> \/ ~AllIn(Unsigned(s), Digits) THEN [ok |-> FALSE, val |-> Word(0)]
  ELSE IF ~DecLeq(Unsigned(s), IF s[1] = "-" THEN <<"9", "2", "2", "3", "3", "7", "2", "0", "3", "6", "8", "5", "4", "7", "7", "5", "8", "0", "8">>
                                 ELSE <<"9", "2", "2", "3", "3", "7", "2", "0", "3", "6", "8", "5", "4", "7", "7", "5", "8", "0", "7">>)
    THEN [ok |-> FALSE, val |-> Word(0)]
  ELSE IF s[1] = "-" THEN [ok |-> TRUE, val |-> Neg(FromDecimal(Unsigned(s)))]
  ELSE [ok |-> TRUE, val |-> FromDecimal(Unsigned(s))]

\* The seconds branch of getConfigDuration: Atoi, then the product with
\* time.Second, which wraps silently.
SecondsDuration(seconds) ==
  IF seconds.ok THEN Parsed(WholeSeconds(TimesSecond(seconds.val))) ELSE Failed

RECURSIVE PrefixLenNot(_, _)
PrefixLenNot(s, chars) ==
  IF s = <<>> \/ s[1] \in chars THEN 0 ELSE 1 + PrefixLenNot(Tail(s), chars)

\* The largest count of a unit that time.ParseDuration accepts: 2^63
\* nanoseconds divided by the unit ("time: invalid duration" beyond it).
UnitLimit(u) ==
  CASE u = <<"s">> -> <<"9", "2", "2", "3", "3", "7", "2", "0", "3", "6">>
    [] u = <<"m">> -> <<"1", "5", "3", "7", "2", "2", "8", "6", "7">>
    [] u = <<"h">> -> <<"2", "5", "6", "2", "0", "4", "7">>

\* The largest count of a unit below Huge seconds.
UnitHuge(u) ==
  CASE u = <<"s">> -> <<"2", "1", "4", "7", "4", "8", "3", "6", "4", "7">>
    [] u = <<"m">> -> <<"3", "5", "7", "9", "1", "3", "9", "4">>
    [] u = <<"h">> -> <<"5", "9", "6", "5", "2", "3">>

GroupSeconds(digits, u) ==
  IF DecLeq(digits, UnitHuge(u)) THEN BaseValue(digits, 10) * UnitSeconds(u) ELSE Huge

Sum(a, b) == IF a > Huge - b THEN Huge ELSE a + b

\* One group of a duration: n digits, then a unit of u characters, then the
\* groups that follow.  (Whether a sum of groups that reaches Huge seconds
\* also passes 2^63 nanoseconds is beyond the model's durations.)
DurationGroup(s, n, u, more) ==
  IF n = 0 \/ u = 0 \/ UnitSeconds(SubSeq(s, n + 1, n + u)) = 0 \/ ~more.ok
    THEN Failed
  ELSE IF ~DecLeq(SubSeq(s, 1, n), UnitLimit(SubSeq(s, n + 1, n + u)))
    THEN Failed
  ELSE Parsed(Sum(GroupSeconds(SubSeq(s, 1, n), SubSeq(s, n + 1, n + u)), more.val))

UnitLen(s, n) == PrefixLenNot(Drop(s, n), Digits \cup {"."})

\* The loop of time.ParseDuration: one or more groups of digits and a unit.
\* (Fractions and the sub-second units ns, us, ms are outside the alphabet
\* of the values the model feeds it, the model's durations being seconds.)
RECURSIVE DurationGroups(_)
DurationGroups(s) ==
  IF s = <<>> THEN Parsed(0)
  ELSE IF PrefixLen(s, Digits) = 0 \/ UnitLen(s, PrefixLen(s, Digits)) = 0
    THEN Failed
  ELSE DurationGroup(s, PrefixLen(s, Digits), UnitLen(s, PrefixLen(s, Digits)),
         DurationGroups(Drop(s, PrefixLen(s, Digits)
                                + UnitLen(s, PrefixLen(s, Digits)))))

SignedDuration(s, groups) ==
  IF groups.ok THEN Parsed(Negate(s, groups.val)) ELSE Failed

\* time.ParseDuration: [-+]?(digits unit)+, with "0" alone accepted.
ParseDuration(s) ==
  IF Unsigned(s) = <<"0">> THEN Parsed(0)
  ELSE IF Unsigned(s) = <<>> THEN Failed
  ELSE SignedDuration(s, DurationGroups(Unsigned(s)))

(***************************************************************************)
(* The configuration source.  config.ini, once parsed by ini.Load, is a    *)
(* map from (section, key) to the text of the value; a key that is absent  *)
(* and a key with an empty value both read as "".                          *)
(***************************************************************************)
Keys ==
  { <<"app", "environment">>, <<"app", "name">>, <<"app", "version">>,
    <<"app", "debug">>, <<"development", "hot_reload">>,
    <<"development", "dev_tools">>, <<"development", "mock_api">>,
    <<"api", "base_url">>, <<"api", "timeout">>, <<"api", "retry_count">>,
    <<"api", "retry_delay">>, <<"api", "user_agent">>,
    <<"api", "max_idle_conn">>,
    <<"auth", "token_expiry">>, <<"auth", "refresh_threshold">>,
    <<"auth", "max_login_attempts">>, <<"auth", "lockout_duration">>,
    <<"auth", "session_timeout">>, <<"auth", "remember_me_duration">>,
    <<"log", "level">>, <<"log", "format">>, <<"log", "output">>,
    <<"log", "file_path">>, <<"log", "max_size">>, <<"log", "max_backups">>,
    <<"log", "max_age">>, <<"log", "compress">>,
    <<"database", "host">>, <<"database", "port">>, <<"database", "name">>,
    <<"database", "username">>, <<"database", "password">>,
    <<"database", "ssl_mode">>, <<"database", "max_open_conns">>,
    <<"database", "max_idle_conns">>, <<"database", "conn_lifetime">>,
    <<"security", "cors_enabled">>, <<"security", "cors_origins">>,
    <<"security", "rate_limit_enabled">>, <<"security", "rate_limit_rps">>,
    <<"security", "rate_limit_burst">>, <<"security", "csrf_enabled">>,
    <<"security", "csrf_secret">>,
    <<"window", "width">>, <<"window", "height">>, <<"window", "resizable">>,
    <<"window", "fullscreen">>, <<"window", "maximized">>,
    <<"window", "minimized">>, <<"window", "always_on_top">>,
    <<"cache", "enabled">>, <<"cache", "ttl">>, <<"cache", "max_size">>,
    <<"cache", "max_items">>, <<"cache", "compression_enabled">>,
    <<"cache", "eviction_policy">> }

\* sec.Key(key).String() on the parsed file kv.
KeyString(kv, section, key) == kv[<<section, key>>]

\* A parsed value, or the default when the text did not parse.
OrDefault(parsed, defaultValue) ==
  IF parsed.ok THEN parsed.val ELSE defaultValue

\* A duration text: a duration string first, else a number of seconds.
DurationOr(value, duration, seconds, defaultValue) ==
  IF value = <<>> THEN defaultValue
  ELSE IF duration.ok THEN duration.val
  ELSE IF seconds.ok THEN seconds.val
  ELSE defaultValue

\* The package variable iniConfig is nil (<<>>) or one parsed file (<<kv>>).
getConfigValue(ini, section, key, defaultValue) ==
  IF ini = <<>> THEN defaultValue
  ELSE IF KeyString(ini[1], section, key) = <<>> THEN defaultValue
  ELSE KeyString(ini[1], section, key)

getConfigInt(ini, section, key, defaultValue) ==
  IF ini = <<>> THEN defaultValue
  ELSE OrDefault(KeyInt(KeyString(ini[1], section, key)), defaultValue)

getConfigBool(ini, section, key, defaultValue) ==
  IF ini = <<>> THEN defaultValue
  ELSE OrDefault(KeyBool(KeyString(ini[1], section, key)), defaultValue)

getConfigDuration(ini, section, key, defaultValue) ==
  IF ini = <<>> THEN defaultValue
  ELSE DurationOr(KeyString(ini[1], section, key),
                  ParseDuration(KeyString(ini[1], section, key)),
                  SecondsDuration(AtoiWord(KeyString(ini[1], section, key))),
                  defaultValue)

\* strings.TrimSpace, for the blanks of the model's alphabet.
RECURSIVE TrimSpace(_)
TrimSpace(s) ==
  IF s = <<>> THEN s
  ELSE IF s[1] = " " THEN TrimSpace(Tail(s))
  ELSE IF s[Len(s)] = " " THEN TrimSpace(SubSeq(s, 1, Len(s) - 1))
  ELSE s

\* strings.Split(s, sep) for a one-character separator.
RECURSIVE Split(_, _)
Split(s, sep) ==
  IF PrefixLenNot(s, {sep}) = Len(s) THEN <<s>>
  ELSE <<SubSeq(s, 1, PrefixLenNot(s, {sep}))>>
       \o Split(Drop(s, PrefixLenNot(s, {sep}) + 1), sep)

\* (mutant) app.environment of the file, when set, wins over APP_ENV.
loadAppConfigFileFirst(ini, appEnv) ==
  [ Environment |-> IF getConfigValue(ini, "app", "environment", <<>>) # <<>>
                      THEN getConfigValue(ini, "app", "environment", <<>>)
                      ELSE IF appEnv = <<>> THEN Development ELSE appEnv,
    Name |-> getConfigValue(ini, "app", "name", DefaultAppName),
    Version |-> getConfigValue(ini, "app", "version", DefaultVersion),
    Debug |-> getConfigBool(ini, "app", "debug", TRUE),
    HotReload |-> getConfigBool(ini, "development", "hot_reload", TRUE),
    DevTools |-> getConfigBool(ini, "development", "dev_tools", TRUE),
    MockAPI |-> getConfigBool(ini, "development", "mock_api", FALSE) ]

loadAppConfig(ini, appEnv) ==
  [ Environment |-> IF appEnv = <<>>
                      THEN getConfigValue(ini, "app", "environment", Development)
                      ELSE appEnv,
    Name |-> getConfigValue(ini, "app", "name", DefaultAppName),
    Version |-> getConfigValue(ini, "app", "version", DefaultVersion),
    Debug |-> getConfigBool(ini, "app", "debug", TRUE),
    HotReload |-> getConfigBool(ini, "development", "hot_reload", TRUE),
    DevTools |-> getConfigBool(ini, "development", "dev_tools", TRUE),
    MockAPI |-> getConfigBool(ini, "development", "mock_api", FALSE) ]

loadAPIConfig(ini) ==
  [ BaseURL |-> getConfigValue(ini, "api", "base_url", <<>>),
    Timeout |-> getConfigDuration(ini, "api", "timeout", 30 * Second),
    RetryCount |-> getConfigInt(ini, "api", "retry_count", 3),
    RetryDelay |-> getConfigDuration(ini, "api", "retry_delay", 1 * Second),
    UserAgent |-> getConfigValue(ini, "api", "user_agent", DefaultUserAgent),
    MaxIdleConn |-> getConfigInt(ini, "api", "max_idle_conn", 10) ]

loadAuthConfig(ini) ==
  [ TokenExpiry |-> getConfigDuration(ini, "auth", "token_expiry", 3600 * Second),
    RefreshThreshold |-> getConfigDuration(ini, "auth", "refresh_threshold", 300 * Second),
    MaxLoginAttempts |-> getConfigInt(ini, "auth", "max_login_attempts", 5),
    LockoutDuration |-> getConfigDuration(ini, "auth", "lockout_duration", 15 * Minute),
    SessionTimeout |-> getConfigDuration(ini, "auth", "session_timeout", 24 * Hour),
    RememberMeDuration |-> getConfigDuration(ini, "auth", "remember_me_duration", 30 * 24 * Hour) ]

loadLogConfig(ini) ==
  [ Level |-> getConfigValue(ini, "log", "level", LogLevelDebug),
    Format |-> getConfigValue(ini, "log", "format", LogFormatJSON),
    Output |-> getConfigValue(ini, "log", "output", LogOutputConsole),
    FilePath |-> getConfigValue(ini, "log", "file_path", DefaultLogFilePath),
    MaxSize |-> getConfigInt(ini, "log", "max_size", 100),
    MaxBackups |-> getConfigInt(ini, "log", "max_backups", 3),
    MaxAge |-> getConfigInt(ini, "log", "max_age", 28),
    Compress |-> getConfigBool(ini, "log", "compress", TRUE) ]

loadDatabaseConfig(ini) ==
  [ Host |-> getConfigValue(ini, "database", "host", DefaultDBHost),
    Port |-> getConfigInt(ini, "database", "port", 5432),
    Name |-> getConfigValue(ini, "database", "name", DefaultDBName),
    Username |-> getConfigValue(ini, "database", "username", <<>>),
    Password |-> getConfigValue(ini, "database", "password", <<>>),
    SSLMode |-> getConfigValue(ini, "database", "ssl_mode", SSLDisable),
    MaxOpenConns |-> getConfigInt(ini, "database", "max_open_conns", 25),
    MaxIdleConns |-> getConfigInt(ini, "database", "max_idle_conns", 5),
    ConnLifetime |-> getConfigDuration(ini, "database", "conn_lifetime", 5 * Minute) ]

\* Each of parts with strings.TrimSpace applied.
TrimAll(parts) == [i \in 1..Len(parts) |-> TrimSpace(parts[i])]

\* (mutant) The text is split even when it is empty.
OriginsAlways(corsOrigins) == TrimAll(Split(corsOrigins, ","))

\* The origins of the cors_origins text: none when it is empty.
Origins(corsOrigins) ==
  IF corsOrigins = <<>> THEN <<>> ELSE TrimAll(Split(corsOrigins, ","))

loadSecurityConfig(ini) ==
  [ CORSEnabled |-> getConfigBool(ini, "security", "cors_enabled", TRUE),
    CORSOrigins |-> Origins(getConfigValue(ini, "security", "cors_origins", <<>>)),
    RateLimitEnabled |-> getConfigBool(ini, "security", "rate_limit_enabled", FALSE),
    RateLimitRPS |-> getConfigInt(ini, "security", "rate_limit_rps", 100),
    RateLimitBurst |-> getConfigInt(ini, "security", "rate_limit_burst", 200),
    CSRFEnabled |-> getConfigBool(ini, "security", "csrf_enabled", FALSE),
    CSRFSecret |-> getConfigValue(ini, "security", "csrf_secret", <<>>) ]

loadWindowConfig(ini) ==
  [ Width |-> getConfigInt(ini, "window", "width", 1200),
    Height |-> getConfigInt(ini, "window", "height", 800),
    Resizable |-> getConfigBool(ini, "window", "resizable", TRUE),
    Fullscreen |-> getConfigBool(ini, "window", "fullscreen", FALSE),
    Maximized |-> getConfigBool(ini, "window", "maximized", FALSE),
    Minimized |-> getConfigBool(ini, "window", "minimized", FALSE),
    AlwaysOnTop |-> getConfigBool(ini, "window", "always_on_top", FALSE) ]

loadCacheConfig(ini) ==
  [ Enabled |-> getConfigBool(ini, "cache", "enabled", FALSE),
    TTL |-> getConfigDuration(ini, "cache", "ttl", 3600 * Second),
    MaxSize |-> getConfigInt(ini, "cache", "max_size", 100),
    MaxItems |-> getConfigInt(ini, "cache", "max_items", 10000),
    CompressionEnabled |-> getConfigBool(ini, "cache", "compression_enabled", FALSE),
    EvictionPolicy |-> getConfigValue(ini, "cache", "eviction_policy", EvictLRU) ]

\* The composite literal of LoadConfig: the Config built from iniConfig.
NewConfig(ini, appEnv) ==
  [ App |-> loadAppConfig(ini, appEnv),
    API |-> loadAPIConfig(ini),
    Auth |-> loadAuthConfig(ini),
    Log |-> loadLogConfig(ini),
    Database |-> loadDatabaseConfig(ini),
    Security |-> loadSecurityConfig(ini),
    Window |-> loadWindowConfig(ini),
    Cache |-> loadCacheConfig(ini) ]

(***************************************************************************)
(* Struct validation (validate.Struct over the `validate` tags of the      *)
(* Config types).  Every field is checked; for each field the first tag    *)
(* that fails is reported, and the error returned lists all the failing    *)
(* fields.                                                                 *)
(***************************************************************************)
Letters ==
  { "a", "b", "c", "d", "e", "f", "g", "h", "i", "j", "k", "l", "m", "n",
    "o", "p", "q", "r", "s", "t", "u", "v", "w", "x", "y", "z",
    "A", "B", "C", "D", "E", "F", "G", "H", "I", "J", "K", "L", "M", "N",
    "O", "P", "Q", "R", "S", "T", "U", "V", "W", "X", "Y", "Z" }

\* The `url` tag: the text parses as a URL that has a scheme.
SchemeLen(s) == PrefixLen(s, Letters \cup Digits \cup {"+", "-", "."})

isURL(s) ==
  /\ SchemeLen(s) >= 1
  /\ s[1] \in Letters
  /\ Len(s) > SchemeLen(s) + 1
  /\ s[SchemeLen(s) + 1] = ":"

ThreeNumbers(parts) ==
  Len(parts) = 3 /\ \A i \in 1..Len(parts) : Atoi(parts[i]).ok

validateSemver(version) == ThreeNumbers(Split(version, "."))

\* checks is a sequence of <<tag, passed>>: the first failed tag, if any.
FieldError(field, checks) ==
  IF \A i \in 1..Len(checks) : checks[i][2] THEN {}
  ELSE {<<field, checks[CHOOSE i \in 1..Len(checks) :
                          /\ ~checks[i][2]
                          /\ \A j \in 1..(i - 1) : checks[j][2]][1]>>}

Required(s) == <<"required", s # <<>>>>

RequiredNum(n) == <<"required", n # 0>>

Min(n, lo) == <<"min", n >= lo>>

Max(n, hi) == <<"max", n <= hi>>

\* (mutant) The allowed values are matched without regard to case.
UpperCase ==
  << "A", "B", "C", "D", "E", "F", "G", "H", "I", "J", "K", "L", "M",
     "N", "O", "P", "Q", "R", "S", "T", "U", "V", "W", "X", "Y", "Z" >>

LowerCase ==
  << "a", "b", "c", "d", "e", "f", "g", "h", "i", "j", "k", "l", "m",
     "n", "o", "p", "q", "r", "s", "t", "u", "v", "w", "x", "y", "z" >>

ToLower(s) ==
  [i \in 1..Len(s) |->
     IF \E j \in 1..26 : UpperCase[j] = s[i]
       THEN LowerCase[CHOOSE j \in 1..26 : UpperCase[j] = s[i]]
       ELSE s[i]]

OneOfFold(s, allowed) == <<"oneof", ToLower(s) \in allowed>>

OneOf(s, allowed) == <<"oneof", s \in allowed>>

validateApp(c) ==
  FieldError(<<"App", "Environment">>,
             <<Required(c.Environment),
               OneOf(c.Environment, {Development, Staging, Production})>>)
  \cup FieldError(<<"App", "Name">>,
                  <<Required(c.Name), Min(Len(c.Name), 1), Max(Len(c.Name), 100)>>)
  \cup FieldError(<<"App", "Version">>,
                  <<Required(c.Version), <<"semver", validateSemver(c.Version)>> >>)

validateAPI(c) ==
  FieldError(<<"API", "BaseURL">>, <<Required(c.BaseURL), <<"url", isURL(c.BaseURL)>> >>)
  \cup FieldError(<<"API", "Timeout">>, <<RequiredNum(c.Timeout)>>)
  \cup FieldError(<<"API", "RetryCount">>, <<Min(c.RetryCount, 0), Max(c.RetryCount, 10)>>)
  \cup FieldError(<<"API", "MaxIdleConn">>, <<Min(c.MaxIdleConn, 1), Max(c.MaxIdleConn, 100)>>)

validateAuth(c) ==
  FieldError(<<"Auth", "TokenExpiry">>,
             <<RequiredNum(c.TokenExpiry), Min(c.TokenExpiry, 300 * Second),
               Max(c.TokenExpiry, 86400 * Second)>>)
  \cup FieldError(<<"Auth", "RefreshThreshold">>,
                  <<RequiredNum(c.RefreshThreshold),
                    Min(c.RefreshThreshold, 60 * Second),
                    Max(c.RefreshThreshold, 3600 * Second)>>)
  \cup FieldError(<<"Auth", "MaxLoginAttempts">>,
                  <<Min(c.MaxLoginAttempts, 1), Max(c.MaxLoginAttempts, 10)>>)
  \cup FieldError(<<"Auth", "LockoutDuration">>,
                  <<Min(c.LockoutDuration, 1 * Minute), Max(c.LockoutDuration, 24 * Hour)>>)
  \cup FieldError(<<"Auth", "SessionTimeout">>,
                  <<Min(c.SessionTimeout, 5 * Minute), Max(c.SessionTimeout, 24 * Hour)>>)
  \cup FieldError(<<"Auth", "RememberMeDuration">>,
                  <<Min(c.RememberMeDuration, 1 * Hour),
                    Max(c.RememberMeDuration, 720 * Hour)>>)

validateLog(c) ==
  FieldError(<<"Log", "Level">>,
             <<Required(c.Level),
               OneOf(c.Level, {LogLevelDebug, LogLevelInfo, LogLevelWarn, LogLevelError})>>)
  \cup FieldError(<<"Log", "Format">>,
                  <<Required(c.Format), OneOf(c.Format, {LogFormatJSON, LogFormatText})>>)
  \cup FieldError(<<"Log", "Output">>,
                  <<Required(c.Output),
                    OneOf(c.Output, {LogOutputConsole, LogOutputFile, LogOutputBoth})>>)
  \cup FieldError(<<"Log", "MaxSize">>, <<Min(c.MaxSize, 1), Max(c.MaxSize, 1000)>>)
  \cup FieldError(<<"Log", "MaxBackups">>, <<Min(c.MaxBackups, 0), Max(c.MaxBackups, 100)>>)
  \cup FieldError(<<"Log", "MaxAge">>, <<Min(c.MaxAge, 1), Max(c.MaxAge, 365)>>)

\* (mutant) The port is required and positive, with no upper limit.
validateDatabaseAnyPort(c) ==
  FieldError(<<"Database", "Host">>, <<Required(c.Host)>>)
  \cup FieldError(<<"Database", "Port">>, <<RequiredNum(c.Port), Min(c.Port, 1)>>)
  \cup FieldError(<<"Database", "Name">>,
                  <<Required(c.Name), Min(Len(c.Name), 1), Max(Len(c.Name), 100)>>)
  \cup FieldError(<<"Database", "SSLMode">>,
                  <<OneOf(c.SSLMode, {SSLDisable, SSLRequire, SSLVerifyCA, SSLVerifyFull})>>)
  \cup FieldError(<<"Database", "MaxOpenConns">>,
                  <<Min(c.MaxOpenConns, 1), Max(c.MaxOpenConns, 100)>>)
  \cup FieldError(<<"Database", "MaxIdleConns">>,
                  <<Min(c.MaxIdleConns, 1), Max(c.MaxIdleConns, 100)>>)
  \cup FieldError(<<"Database", "ConnLifetime">>,
                  <<Min(c.ConnLifetime, 1 * Minute), Max(c.ConnLifetime, 24 * Hour)>>)

validateDatabase(c) ==
  FieldError(<<"Database", "Host">>, <<Required(c.Host)>>)
  \cup FieldError(<<"Database", "Port">>,
                  <<RequiredNum(c.Port), Min(c.Port, 1), Max(c.Port, 65535)>>)
  \cup FieldError(<<"Database", "Name">>,
                  <<Required(c.Name), Min(Len(c.Name), 1), Max(Len(c.Name), 100)>>)
  \cup FieldError(<<"Database", "SSLMode">>,
                  <<OneOf(c.SSLMode, {SSLDisable, SSLRequire, SSLVerifyCA, SSLVerifyFull})>>)
  \cup FieldError(<<"Database", "MaxOpenConns">>,
                  <<Min(c.MaxOpenConns, 1), Max(c.MaxOpenConns, 100)>>)
  \cup FieldError(<<"Database", "MaxIdleConns">>,
                  <<Min(c.MaxIdleConns, 1), Max(c.MaxIdleConns, 100)>>)
  \cup FieldError(<<"Database", "ConnLifetime">>,
                  <<Min(c.ConnLifetime, 1 * Minute), Max(c.ConnLifetime, 24 * Hour)>>)

validateSecurity(c) ==
  FieldError(<<"Security", "RateLimitRPS">>,
             <<Min(c.RateLimitRPS, 1), Max(c.RateLimitRPS, 10000)>>)
  \cup FieldError(<<"Security", "RateLimitBurst">>,
                  <<Min(c.RateLimitBurst, 1), Max(c.RateLimitBurst, 1000)>>)

validateWindow(c) ==
  FieldError(<<"Window", "Width">>,
             <<RequiredNum(c.Width), Min(c.Width, 400), Max(c.Width, 4000)>>)
  \cup FieldError(<<"Window", "Height">>,
                  <<RequiredNum(c.Height), Min(c.Height, 300), Max(c.Height, 3000)>>)

validateCache(c) ==
  FieldError(<<"Cache", "TTL">>, <<Min(c.TTL, 1 * Second), Max(c.TTL, 24 * Hour)>>)
  \cup FieldError(<<"Cache", "MaxSize">>, <<Min(c.MaxSize, 1), Max(c.MaxSize, 10000)>>)
  \cup FieldError(<<"Cache", "MaxItems">>, <<Min(c.MaxItems, 100), Max(c.MaxItems, 1000000)>>)
  \cup FieldError(<<"Cache", "EvictionPolicy">>,
                  <<OneOf(c.EvictionPolicy, {EvictLRU, EvictLFU, EvictFIFO})>>)

\* The first of the sets that is not empty.
FirstOf(sets) ==
  IF \A i \in 1..Len(sets) : sets[i] = {} THEN {}
  ELSE sets[CHOOSE i \in 1..Len(sets) :
              sets[i] # {} /\ \A j \in 1..(i - 1) : sets[j] = {}]

\* (mutant) Validation stops at the first section that has a failing field.
validateStructFirst(config) ==
  FirstOf(<<validateApp(config.App), validateAPI(config.API),
            validateAuth(config.Auth), validateLog(config.Log),
            validateDatabase(config.Database), validateSecurity(config.Security),
            validateWindow(config.Window), validateCache(config.Cache)>>)

\* validate.Struct(config): the set of <<field, failed tag>>; empty is nil.
validateStruct(config) ==
  validateApp(config.App) \cup validateAPI(config.API)
  \cup validateAuth(config.Auth) \cup validateLog(config.Log)
  \cup validateDatabase(config.Database) \cup validateSecurity(config.Security)
  \cup validateWindow(config.Window) \cup validateCache(config.Cache)

(***************************************************************************)
(* Post-validation adjustment.                                             *)
(***************************************************************************)
\* Index of the last "/" of path, 0 when it has none.
RECURSIVE LastSlash(_)
LastSlash(path) ==
  IF path = <<>> THEN 0
  ELSE IF path[Len(path)] = "/" THEN Len(path)
  ELSE LastSlash(SubSeq(path, 1, Len(path) - 1))

\* filepath.Dir, for paths without "." or ".." elements or doubled slashes.
Dir(path) ==
  IF LastSlash(path) = 0 THEN <<".">>
  ELSE IF LastSlash(path) = 1 THEN <<"/">>
  ELSE SubSeq(path, 1, LastSlash(path) - 1)

\* os.MkdirAll(dir): succeeds when dir exists or can be created.
MkdirAll(dir, existing, writable) == dir \in existing \/ writable

NeedsLogDir(config) == config.Log.Output \in {LogOutputFile, LogOutputBoth}

\* fmt.Sprintf("%s/%s", name, version)
DerivedUserAgent(config) == config.App.Name \o <<"/">> \o config.App.Version

\* The Config as postValidationAdjustments leaves it.
AdjustedConfig(config) ==
  IF config.API.UserAgent = <<>>
    THEN [config EXCEPT !.API.UserAgent = DerivedUserAgent(config)]
    ELSE config

postValidationAdjustments(config, existing, writable) ==
  IF NeedsLogDir(config) /\ ~MkdirAll(Dir(config.Log.FilePath), existing, writable)
    THEN [ok |-> FALSE, config |-> config, dirs |-> existing]
    ELSE [ok |-> TRUE,
          config |-> AdjustedConfig(config),
          dirs |-> IF NeedsLogDir(config)
                     THEN existing \cup {Dir(config.Log.FilePath)}
                     ELSE existing]

(***************************************************************************)
(* Inputs: the texts a key of config.ini may hold, and the files built     *)
(* from them.                                                              *)
(***************************************************************************)
IntKeys ==
  { <<"api", "retry_count">>, <<"api", "max_idle_conn">>,
    <<"auth", "max_login_attempts">>, <<"log", "max_size">>,
    <<"log", "max_backups">>, <<"log", "max_age">>, <<"database", "port">>,
    <<"database", "max_open_conns">>, <<"database", "max_idle_conns">>,
    <<"security", "rate_limit_rps">>, <<"security", "rate_limit_burst">>,
    <<"window", "width">>, <<"window", "height">>, <<"cache", "max_size">>,
    <<"cache", "max_items">> }

BoolKeys ==
  { <<"app", "debug">>, <<"development", "hot_reload">>,
    <<"development", "dev_tools">>, <<"development", "mock_api">>,
    <<"log", "compress">>, <<"security", "cors_enabled">>,
    <<"security", "rate_limit_enabled">>, <<"security", "csrf_enabled">>,
    <<"window", "resizable">>, <<"window", "fullscreen">>,
    <<"window", "maximized">>, <<"window", "minimized">>,
    <<"window", "always_on_top">>, <<"cache", "enabled">>,
    <<"cache", "compression_enabled">> }

DurationKeys ==
  { <<"api", "timeout">>, <<"api", "retry_delay">>, <<"auth", "token_expiry">>,
    <<"auth", "refresh_threshold">>, <<"auth", "lockout_duration">>,
    <<"auth", "session_timeout">>, <<"auth", "remember_me_duration">>,
    <<"database", "conn_lifetime">>, <<"cache", "ttl">> }

IntTexts == { <<"7">>, <<"0">>, <<"0", "1", "0">>, <<"5", "0", "0">>, <<"7", "0", "0", "0", "0">>, <<"-", "1">>, <<"a", "b", "c">> }

BoolTexts == { <<"t", "r", "u", "e">>, <<"f", "a", "l", "s", "e">>, <<"T", "R", "U", "E">>, <<"m", "a", "y", "b", "e">> }

DurationTexts == { <<"3", "0", "s">>, <<"3", "0">>, <<"5", "m">>, <<"2", "h">>, <<"1", "h", "3", "0", "m">>, <<"0">>, <<"9", "0", "0", "0", "0">>, <<"a", "b", "c">>,
                   <<"3", "6", "0", "2", "8", "7", "9", "7", "0", "1", "8", "9", "6", "3", "9", "9", "8">>,
                   <<"3", "6", "0", "2", "8", "7", "9", "7", "0", "1", "8", "9", "6", "3", "9", "9", "8", "s">> }

StringTexts(k) ==
  CASE k = <<"app", "environment">> ->
         { Staging, Production, <<"q", "a">>, <<"P", "r", "o", "d", "u", "c", "t", "i", "o", "n">> }
    [] k = <<"app", "name">> -> { <<"C", "S", "m", "a", "r", "t">> }
    [] k = <<"app", "version">> -> { <<"2", ".", "1", ".", "0">>, <<"2", ".", "1">> }
    [] k = <<"api", "base_url">> -> { <<>>, <<"h", "t", "t", "p", ":", "/", "/", "l", "o", "c", "a", "l", "h", "o", "s", "t", ":", "8", "0">>, <<"n", "o", "-", "u", "r", "l">> }
    [] k = <<"api", "user_agent">> -> { <<"a", "b", "c">> }
    [] k = <<"log", "level">> -> { LogLevelInfo, <<"v", "e", "r", "b", "o", "s", "e">>, <<"D", "E", "B", "U", "G">> }
    [] k = <<"log", "format">> -> { LogFormatText, <<"x", "m", "l">> }
    [] k = <<"log", "output">> -> { LogOutputFile, LogOutputBoth, <<"s", "y", "s", "l", "o", "g">> }
    [] k = <<"log", "file_path">> -> { <<"a", "p", "p", ".", "l", "o", "g">>, <<"/", "v", "a", "r", "/", "x", "/", "a", "p", "p", ".", "l", "o", "g">> }
    [] k = <<"database", "host">> -> { <<"d", "b", ".", "t", "e", "s", "t">> }
    [] k = <<"database", "name">> -> { <<"a", "b", "c">> }
    [] k = <<"database", "username">> -> { <<"a", "d", "m", "i", "n">> }
    [] k = <<"database", "password">> -> { <<"h", "u", "n", "t", "e", "r", "2">> }
    [] k = <<"database", "ssl_mode">> -> { SSLRequire, <<"p", "r", "e", "f", "e", "r">> }
    [] k = <<"security", "cors_origins">> ->
         { <<"h", "t", "t", "p", ":", "/", "/", "a", ".", "t", "e", "s", "t", ":", "1">>, <<"h", "t", "t", "p", ":", "/", "/", "a", ".", "t", "e", "s", "t", ":", "1", ",", " ", "h", "t", "t", "p", ":", "/", "/", "b", ".", "t", "e", "s", "t", ":", "2">> }
         \cup { <<"*">>, <<"h", "t", "t", "p", ":", "/", "/", "a", ".", "t", "e", "s", "t", ":", "1", " ", ",", "h", "t", "t", "p", ":", "/", "/", "l", "o", "c", "a", "l", "h", "o", "s", "t", ",">> }
    [] k = <<"security", "csrf_secret">> -> { <<"s", "3", "c", "r", "3", "t">> }
    [] k = <<"cache", "eviction_policy">> -> { EvictLFU, <<"r", "a", "n", "d", "o", "m">> }

Texts(k) ==
  IF k \in IntKeys THEN IntTexts
  ELSE IF k \in BoolKeys THEN BoolTexts
  ELSE IF k \in DurationKeys THEN DurationTexts
  ELSE StringTexts(k)

\* A config.ini with no keys.
EmptySource == [k \in Keys |-> <<>>]

\* A config.ini that sets the API base URL and nothing else.
BaseSource == [EmptySource EXCEPT ![<<"api", "base_url">>] = <<"h", "t", "t", "p", "s", ":", "/", "/", "a", "p", "i", ".", "t", "e", "s", "t">>]

\* kv with each <<key, text>> of edits written over it (distinct keys).
WithEdits(kv, edits) ==
  [k \in Keys |-> IF \E e \in edits : e[1] = k
                    THEN (CHOOSE e \in edits : e[1] = k)[2]
                    ELSE kv[k]]

DistinctKeys(edits) == \A e1, e2 \in edits : e1[1] = e2[1] => e1 = e2

\* Every single edit <<key, text>>.
AllEdits == UNION {{<<k, txt>> : txt \in Texts(k)} : k \in Keys}

\* Edits that are combined with one another: each touches a different
\* constraint, or is malformed, or makes the load reach a later stage.
FocusEdits ==
  { <<<<"window", "width">>, <<"7">>>>, <<<<"window", "width">>, <<"a", "b", "c">>>>,
    <<<<"log", "level">>, <<"v", "e", "r", "b", "o", "s", "e">>>>, <<<<"database", "port">>, <<"a", "b", "c">>>>,
    <<<<"database", "port">>, <<"7", "0", "0", "0", "0">>>>, <<<<"app", "version">>, <<"2", ".", "1">>>>,
    <<<<"cache", "ttl">>, <<"0">>>>, <<<<"api", "base_url">>, <<>>>>,
    <<<<"database", "password">>, <<"h", "u", "n", "t", "e", "r", "2">>>> }

MaxEdits == 3

MultiEdits ==
  {E \in SUBSET FocusEdits : DistinctKeys(E) /\ Cardinality(E) <= MaxEdits}

ParsedFile(kv) == [status |-> "ok", kv |-> kv]

\* config.ini is absent, or is not INI text: ini.Load fails on both.
MissingFile == [status |-> "missing", kv |-> EmptySource]

UnparsableFile == [status |-> "unparsable", kv |-> EmptySource]

\* Edits of the security keys that only matter together: a configured CSRF
\* secret, and a rate limit and a database SSL mode of the file's own.
SecurityEdits ==
  { { <<<<"security", "csrf_enabled">>, <<"t", "r", "u", "e">>>>,
      <<<<"security", "csrf_secret">>, <<"s", "3", "c", "r", "3", "t">>>> },
    { <<<<"security", "rate_limit_enabled">>, <<"t", "r", "u", "e">>>>,
      <<<<"security", "rate_limit_rps">>, <<"7">>>>,
      <<<<"security", "rate_limit_burst">>, <<"5", "0", "0">>>>,
      <<<<"database", "ssl_mode">>, SSLVerifyFull>>,
      <<<<"app", "debug">>, <<"f", "a", "l", "s", "e">>>> } }

\* The files of the input-space specification.
WideFiles ==
  {ParsedFile(EmptySource)}
  \cup {ParsedFile(WithEdits(BaseSource, E)) : E \in SecurityEdits}
  \cup {ParsedFile(WithEdits(BaseSource, {e})) : e \in AllEdits}
  \cup {ParsedFile(WithEdits(BaseSource, E)) : E \in MultiEdits}

\* The files of the lifecycle specification.
LifeFiles ==
  { MissingFile, ParsedFile(BaseSource),
    ParsedFile(WithEdits(BaseSource,
      { <<<<"app", "environment">>, Staging>>, <<<<"app", "name">>, <<"C", "S", "m", "a", "r", "t">>>>,
        <<<<"window", "width">>, <<"5", "0", "0">>>>, <<<<"api", "timeout">>, <<"5", "m">>>>,
        <<<<"database", "password">>, <<"h", "u", "n", "t", "e", "r", "2">>>> })),
    ParsedFile(WithEdits(BaseSource,
      { <<<<"window", "width">>, <<"7">>>>, <<<<"log", "level">>, <<"v", "e", "r", "b", "o", "s", "e">>>>,
        <<<<"database", "port">>, <<"a", "b", "c">>>> })) }

\* Values of the APP_ENV environment variable; <<>> is unset.
LifeEnvTexts == { <<>>, Production, <<"q", "a">> }

EnvTexts == { <<>>, Staging, Production, <<"q", "a">> }

(***************************************************************************)
(* State.                                                                  *)
(***************************************************************************)
VARIABLES
  configFile,   \* config.ini on disk
  appEnv,       \* the APP_ENV environment variable
  fsWritable,   \* whether a missing directory can be created
  dirs,         \* the directories that exist
  iniConfig,    \* package variable iniConfig: <<>> is nil
  heap,         \* the Config objects, by address
  instance,     \* package variable instance: an address, 0 is nil
  appConfig,    \* App.config of the App that NewApp built: 0 before NewApp
  pc,           \* where the loading goroutine is
  result,       \* what the last call returned
  phase,        \* the process: "start" before main, "running", "halted"
  login,        \* the call of App.Login under way, or the last one
  client        \* the frontend's ApiClient and the requests it was given

vars ==
  <<configFile, appEnv, fsWritable, dirs, iniConfig, heap, instance,
    appConfig, pc, result, phase, login, client>>

MaxObjs == 4

Addrs == 1..MaxObjs

\* What a call returns: the *Config (0 is nil), the stage of the error ("none"
\* is a nil error) with the fields it lists, whether the call panicked, the
\* *PublicConfig (<<>> is none), where a reloading goroutine was, and the
\* lines the call wrote to standard output, the message of its log.Fatalf,
\* the environment of the validator it was called on and the findings it
\* returned (none, unless the caller adds them).
Return(op, config, stage, fields, panic, public) ==
  [ op |-> op, config |-> config, stage |-> stage, fields |-> fields,
    panic |-> panic, public |-> public, during |-> pc, printed |-> <<>>,
    fatal |-> "", environment |-> <<>>, returned |-> <<>> ]

\* An address no live pointer holds.
NewAddr(roots) == CHOOSE a \in Addrs \ roots : \A b \in Addrs \ roots : a <= b

\* The heap once the objects no pointer reaches are collected.
Collect(h, roots) == [a \in Addrs |-> IF a \in roots THEN h[a] ELSE <<>>]

(***************************************************************************)
(* The advisory validators.  A finding is <<text, argument>>; a printed    *)
(* line is <<prefix, text, argument>>.                                     *)
(***************************************************************************)
\* strings.Contains and strings.HasPrefix.
Contains(s, sub) ==
  \E i \in 0..(Len(s) - Len(sub)) : SubSeq(s, i + 1, i + Len(sub)) = sub

HasPrefix(s, prefix) ==
  Len(s) >= Len(prefix) /\ SubSeq(s, 1, Len(prefix)) = prefix

\* One finding when the condition holds.
Finding(condition, text) == IF condition THEN << <<text, <<>>>> >> ELSE <<>>

\* The regular expression ^https?://[a-zA-Z0-9.-]+(:[0-9]+)?$ on the text
\* after the scheme: a host, then nothing or a colon and digits.
HostLen(rest) == PrefixLen(rest, Letters \cup Digits \cup {".", "-"})

HostAndPort(rest) ==
  /\ HostLen(rest) >= 1
  /\ \/ HostLen(rest) = Len(rest)
     \/ /\ rest[HostLen(rest) + 1] = ":"
        /\ Len(rest) > HostLen(rest) + 1
        /\ AllIn(Drop(rest, HostLen(rest) + 1), Digits)

isValidOrigin(origin) ==
  \/ origin = <<"*">>
  \/ HasPrefix(origin, <<"h", "t", "t", "p", ":", "/", "/">>) /\ HostAndPort(Drop(origin, 7))
  \/ HasPrefix(origin, <<"h", "t", "t", "p", "s", ":", "/", "/">>) /\ HostAndPort(Drop(origin, 8))

IsLocal(text) == Contains(text, <<"l", "o", "c", "a", "l", "h", "o", "s", "t">>) \/ Contains(text, <<"1", "2", "7", ".", "0", ".", "0", ".", "1">>)

\* One finding for each origin of origins that is not valid, in order.
InvalidOrigins(origins) ==
  [i \in 1..Len(SelectSeq(origins, LAMBDA o : ~isValidOrigin(o))) |->
     <<"Invalid CORS origin: %s",
       SelectSeq(origins, LAMBDA o : ~isValidOrigin(o))[i]>>]

\* One finding for each origin of origins that names the local host.
LocalOrigins(origins) ==
  [i \in 1..Len(SelectSeq(origins, IsLocal)) |->
     <<"Localhost origins should not be allowed in production", <<>>>>]

validateProductionSecurity(config) ==
  Finding(config.App.Debug, "Debug mode should be disabled in production")
  \o Finding(config.App.DevTools, "Dev tools should be disabled in production")
  \o (IF config.Security.CORSEnabled
        THEN LocalOrigins(config.Security.CORSOrigins) ELSE <<>>)
  \o Finding(config.Database.SSLMode = SSLDisable,
             "Database SSL should be enabled in production")
  \o Finding(config.API.Timeout > 60 * Second,
             "API timeout is very high for production environment")

\* (mutant) The production checks run in every environment but development.
ProductionPassNotDevelopment(config) ==
  IF config.App.Environment # Development
    THEN validateProductionSecurity(config) ELSE <<>>

\* The end of ValidateSecuritySettings: the production checks, in
\* production only.
ProductionPass(config) ==
  IF config.App.Environment = Production
    THEN validateProductionSecurity(config) ELSE <<>>

\* (mutant) The length of the CSRF secret is checked whether or not the
\* secret is empty.
ValidateSecuritySettingsNoElse(config) ==
  (IF ~config.Security.CORSEnabled THEN <<>>
   ELSE IF Len(config.Security.CORSOrigins) = 0
     THEN Finding(TRUE, "CORS is enabled but no origins are specified")
     ELSE InvalidOrigins(config.Security.CORSOrigins))
  \o (IF ~config.Security.CSRFEnabled THEN <<>>
      ELSE Finding(config.Security.CSRFSecret = <<>>,
                   "CSRF is enabled but no secret is provided")
           \o Finding(Len(config.Security.CSRFSecret) < 32,
                      "CSRF secret should be at least 32 characters long"))
  \o (IF ~config.Security.RateLimitEnabled THEN <<>>
      ELSE Finding(config.Security.RateLimitRPS <= 0,
                   "Rate limiting is enabled but RPS is not positive")
           \o Finding(config.Security.RateLimitBurst <= 0,
                      "Rate limiting is enabled but burst is not positive"))
  \o ProductionPass(config)

ValidateSecuritySettings(config) ==
  (IF ~config.Security.CORSEnabled THEN <<>>
   ELSE IF Len(config.Security.CORSOrigins) = 0
     THEN Finding(TRUE, "CORS is enabled but no origins are specified")
     ELSE InvalidOrigins(config.Security.CORSOrigins))
  \o (IF ~config.Security.CSRFEnabled THEN <<>>
      ELSE IF config.Security.CSRFSecret = <<>>
        THEN Finding(TRUE, "CSRF is enabled but no secret is provided")
        ELSE Finding(Len(config.Security.CSRFSecret) < 32,
                     "CSRF secret should be at least 32 characters long"))
  \o (IF ~config.Security.RateLimitEnabled THEN <<>>
      ELSE Finding(config.Security.RateLimitRPS <= 0,
                   "Rate limiting is enabled but RPS is not positive")
           \o Finding(config.Security.RateLimitBurst <= 0,
                      "Rate limiting is enabled but burst is not positive"))
  \o ProductionPass(config)

validateDevelopment(config) ==
  Finding(~config.App.Debug, "Debug mode should be enabled in development")
  \o Finding(~Contains(config.API.BaseURL, <<"l", "o", "c", "a", "l", "h", "o", "s", "t">>)
               /\ ~Contains(config.API.BaseURL, <<"1", "2", "7", ".", "0", ".", "0", ".", "1">>)
               /\ ~Contains(config.API.BaseURL, <<"t", "e", "s", "t">>),
             "Development should typically use localhost or test API URLs")

validateStaging(config) ==
  Finding(IsLocal(config.API.BaseURL), "Staging should not use localhost API URLs")
  \o Finding(config.API.Timeout < 10 * Second,
             "API timeout is too low for staging environment")

validateProduction(config) ==
  Finding(config.App.Debug, "Debug mode must be disabled in production")
  \o Finding(config.App.DevTools, "Dev tools must be disabled in production")
  \o Finding(~HasPrefix(config.API.BaseURL, <<"h", "t", "t", "p", "s", ":", "/", "/">>),
             "Production must use HTTPS API URLs")
  \o Finding(config.Database.SSLMode = SSLDisable,
             "Database SSL must be enabled in production")
  \o Finding(~config.Security.RateLimitEnabled,
             "Rate limiting should be enabled in production")

\* (mutant) The staging rules also run for a production validator.
ValidateEnvironmentFallThrough(environment, config) ==
  IF environment = Development THEN validateDevelopment(config)
  ELSE IF environment = Staging THEN validateStaging(config)
  ELSE IF environment = Production
    THEN validateStaging(config) \o validateProduction(config)
  ELSE <<>>

\* environment is the validator's own: LoadConfig makes it from APP_ENV.
ValidateEnvironment(environment, config) ==
  IF environment = Development THEN validateDevelopment(config)
  ELSE IF environment = Staging THEN validateStaging(config)
  ELSE IF environment = Production THEN validateProduction(config)
  ELSE <<>>

\* The lines fmt.Printf writes for findings, each with its prefix.
Lines(prefix, findings) ==
  [i \in 1..Len(findings) |-> <<prefix, findings[i][1], findings[i][2]>>]

\* os.Getenv("APP_ENV"), "development" when it is empty.
EnvOrDevelopment(env) == IF env = <<>> THEN Development ELSE env

\* What LoadConfig prints between validate.Struct and the adjustments.
Advisories(env, config) ==
  Lines("Environment Validation Error: ",
        ValidateEnvironment(EnvOrDevelopment(env), config))
  \o Lines("Security Warning: ", ValidateSecuritySettings(config))

(***************************************************************************)
(* LoadConfig.                                                             *)
(***************************************************************************)
\* What a run of LoadConfig below its first test comes to: the error stage
\* ("none" is success), the fields the error lists, the Config to publish,
\* what the run leaves in iniConfig and on disk, and the lines it printed.
Outcome(stage, fields, config, ini, existing, printed) ==
  [ stage |-> stage, fields |-> fields, config |-> config, ini |-> ini,
    dirs |-> existing, printed |-> printed ]

\* (mutant) A run that printed a finding returns an error.
CheckedStrict(ini, errs, adj, existing, printed) ==
  IF errs # {} THEN Outcome("validation", errs, <<>>, ini, existing, <<>>)
  ELSE IF printed # <<>> THEN Outcome("advisory", {}, <<>>, ini, existing, printed)
  ELSE IF ~adj.ok THEN Outcome("adjustment", {}, <<>>, ini, existing, printed)
  ELSE Outcome("none", {}, <<adj.config>>, ini, adj.dirs, printed)

\* The returns of LoadConfig after validate.Struct gave errs and
\* postValidationAdjustments gave adj; printed is what the two advisory
\* validators print in between.
Checked(ini, errs, adj, existing, printed) ==
  IF errs # {} THEN Outcome("validation", errs, <<>>, ini, existing, <<>>)
  ELSE IF ~adj.ok THEN Outcome("adjustment", {}, <<>>, ini, existing, printed)
  ELSE Outcome("none", {}, <<adj.config>>, ini, adj.dirs, printed)

\* LoadConfig from the Config literal on.
Validated(ini, config, existing, writable, env) ==
  Checked(ini, validateStruct(config),
          postValidationAdjustments(config, existing, writable), existing,
          Advisories(env, config))

\* (mutant) A file that cannot be loaded is read as a file with no keys.
PipelineLenient(file, env, existing, writable) ==
  Validated(<<file.kv>>, NewConfig(<<file.kv>>, env), existing, writable, env)

\* LoadConfig below its first test, run with instance = nil.
Pipeline(file, env, existing, writable) ==
  IF file.status # "ok" THEN Outcome("source", {}, <<>>, <<>>, existing, <<>>)
  ELSE Validated(<<file.kv>>, NewConfig(<<file.kv>>, env), existing, writable, env)

\* (mutant) LoadConfig never takes its early return.
CachedNever(inst) == FALSE

\* LoadConfig returns the instance it finds.
Cached(inst) == inst # 0

\* The end of LoadConfig: out is what the run came to, addr the address of
\* the Config it built.  A caller that keeps the *Config (assign) keeps it
\* when the error is nil; NewApp panics on an error.
Publish(op, assign, out, addr) ==
  /\ iniConfig' = out.ini
  /\ dirs' = out.dirs
  /\ IF out.stage = "none"
       THEN /\ instance' = addr
            /\ appConfig' = IF assign THEN addr ELSE appConfig
            /\ result' = [Return(op, addr, "none", {}, FALSE, <<>>)
                            EXCEPT !.printed = out.printed]
            /\ heap' = Collect([heap EXCEPT ![addr] = out.config],
                               {addr, appConfig'})
       ELSE /\ result' = [Return(op, 0, out.stage, out.fields, op = "NewApp", <<>>)
                            EXCEPT !.printed = out.printed]
            /\ heap' = Collect(heap, {instance, appConfig})
            /\ UNCHANGED <<instance, appConfig>>

\* The whole of LoadConfig, called as op.
LoadConfigAs(op, assign) ==
  IF Cached(instance)
    THEN /\ result' = Return(op, instance, "none", {}, FALSE, <<>>)
         /\ appConfig' = IF assign THEN instance ELSE appConfig
         /\ heap' = Collect(heap, {instance, appConfig'})
         /\ UNCHANGED <<iniConfig, instance, dirs>>
    ELSE Publish(op, assign, Pipeline(configFile, appEnv, dirs, fsWritable),
                 NewAddr({instance, appConfig, result.config}))

LoadConfig ==
  /\ phase # "halted"
  /\ pc = "idle"
  /\ LoadConfigAs("LoadConfig", FALSE)
  /\ UNCHANGED <<login, client, phase, configFile, appEnv, fsWritable, pc>>

\* NewApp: LoadConfig, a panic when it fails, else the App holding the Config.
NewApp ==
  /\ phase # "halted"
  /\ pc = "idle"
  /\ appConfig = 0
  /\ LoadConfigAs("NewApp", TRUE)
  /\ UNCHANGED <<login, client, phase, configFile, appEnv, fsWritable, pc>>

(***************************************************************************)
(* main: LoadConfig, log.Fatalf when it fails, NewApp, wails.Run.  The     *)
(* process starts with nothing loaded; a process in which the package is   *)
(* called directly (the actions below) never runs main.                    *)
(***************************************************************************)
\* (mutant) main goes on to NewApp and wails.Run whatever LoadConfig returns.
MainFinishLenient(out, addr, started) ==
  /\ iniConfig' = out.ini
  /\ dirs' = out.dirs
  /\ instance' = IF out.stage = "none" THEN addr ELSE instance
  /\ appConfig' = IF out.stage = "none" THEN addr ELSE appConfig
  /\ heap' = IF out.stage = "none"
               THEN Collect([heap EXCEPT ![addr] = out.config], {addr})
               ELSE Collect(heap, {instance, appConfig})
  /\ phase' = IF started THEN "running" ELSE "halted"
  /\ result' = [Return("main", IF out.stage = "none" THEN addr ELSE 0,
                       out.stage, out.fields, FALSE, <<>>)
                  EXCEPT !.printed = out.printed,
                         !.fatal = IF started THEN ""
                                   ELSE "Error starting application"]

\* main from the return of its LoadConfig on: out is what LoadConfig came
\* to, addr the address of the Config, started whether wails.Run got the
\* window up.  NewApp calls LoadConfig again and gets the same Config.
MainFinish(out, addr, started) ==
  /\ iniConfig' = out.ini
  /\ dirs' = out.dirs
  /\ IF out.stage # "none"
       THEN /\ phase' = "halted"
            /\ result' = [Return("main", 0, out.stage, out.fields, FALSE, <<>>)
                            EXCEPT !.printed = out.printed,
                                   !.fatal = "Failed to load configuration"]
            /\ heap' = Collect(heap, {instance, appConfig})
            /\ UNCHANGED <<instance, appConfig>>
       ELSE /\ instance' = addr
            /\ appConfig' = addr
            /\ heap' = Collect([heap EXCEPT ![addr] = out.config], {addr})
            /\ phase' = IF started THEN "running" ELSE "halted"
            /\ result' = [Return("main", addr, "none", {}, FALSE, <<>>)
                            EXCEPT !.printed = out.printed,
                                   !.fatal = IF started THEN ""
                                             ELSE "Error starting application"]

Main ==
  /\ phase = "start"
  /\ pc = "idle"
  /\ result.op = "none"
  /\ \E started \in BOOLEAN :
       IF Cached(instance)
         THEN MainFinish(Outcome("none", {}, heap[instance], iniConfig, dirs, <<>>),
                         instance, started)
         ELSE MainFinish(Pipeline(configFile, appEnv, dirs, fsWritable),
                         NewAddr({instance, appConfig, result.config}), started)
  /\ UNCHANGED <<login, client, configFile, appEnv, fsWritable, pc>>

(***************************************************************************)
(* ReloadConfig: instance = nil, then LoadConfig.  Other goroutines (the   *)
(* frontend's calls are served on their own goroutines) run between the    *)
(* two statements.                                                         *)
(***************************************************************************)
ReloadCallers == {"ReloadConfig", "App.ReloadConfig"}

\* (mutant) ReloadConfig without its first statement.
ReloadKeep ==
  /\ phase # "halted"
  /\ pc = "idle"
  /\ \E caller \in ReloadCallers :
       /\ caller = "App.ReloadConfig" <=> appConfig # 0
       /\ pc' = caller
  /\ heap' = Collect(heap, {instance, appConfig, result.config})
  /\ UNCHANGED <<login, client, phase, configFile, appEnv, fsWritable, dirs, iniConfig, instance,
                 appConfig, result>>

ReloadClear ==
  /\ phase # "halted"
  /\ pc = "idle"
  /\ \E caller \in ReloadCallers :
       /\ caller = "App.ReloadConfig" <=> appConfig # 0
       /\ pc' = caller
  /\ instance' = 0
  /\ heap' = Collect(heap, {appConfig, result.config})
  /\ UNCHANGED <<login, client, phase, configFile, appEnv, fsWritable, dirs, iniConfig, appConfig, result>>

ReloadLoad ==
  /\ phase # "halted"
  /\ pc \in ReloadCallers
  /\ LoadConfigAs(pc, pc = "App.ReloadConfig")
  /\ pc' = "idle"
  /\ UNCHANGED <<login, client, phase, configFile, appEnv, fsWritable>>

(***************************************************************************)
(* LoadSecureConfig: LoadConfig, the security warnings once more, and      *)
(* applySecurityDefaults on the Config LoadConfig returned.                *)
(***************************************************************************)
\* base64.URLEncoding: the alphabet and the padded encoding.
URLAlphabet ==
  << "A", "B", "C", "D", "E", "F", "G", "H", "I", "J", "K", "L", "M", "N", "O", "P",
     "Q", "R", "S", "T", "U", "V", "W", "X", "Y", "Z", "a", "b", "c", "d", "e", "f",
     "g", "h", "i", "j", "k", "l", "m", "n", "o", "p", "q", "r", "s", "t", "u", "v",
     "w", "x", "y", "z", "0", "1", "2", "3", "4", "5", "6", "7", "8", "9", "-", "_" >>

Sextet(n) == URLAlphabet[n + 1]

RECURSIVE EncodeToString(_)
EncodeToString(bytes) ==
  IF Len(bytes) = 0 THEN <<>>
  ELSE IF Len(bytes) = 1
    THEN << Sextet(bytes[1] \div 4), Sextet((bytes[1] % 4) * 16), "=", "=" >>
  ELSE IF Len(bytes) = 2
    THEN << Sextet(bytes[1] \div 4),
            Sextet((bytes[1] % 4) * 16 + bytes[2] \div 16),
            Sextet((bytes[2] % 16) * 4), "=" >>
  ELSE << Sextet(bytes[1] \div 4),
          Sextet((bytes[1] % 4) * 16 + bytes[2] \div 16),
          Sextet((bytes[2] % 16) * 4 + bytes[3] \div 64),
          Sextet(bytes[3] % 64) >>
       \o EncodeToString(Drop(bytes, 3))

\* crypto/rand.Read on a buffer of the given length: it fails, or it fills
\* the buffer.  The fillings are a few byte patterns.
RandomSeeds == { <<255, 0>>, <<17, 37>> }

RandomReads(length) ==
  { [ok |-> FALSE, bytes |-> <<>>] }
  \cup { [ok |-> TRUE, bytes |-> [i \in 1..length |-> (p[1] + i * p[2]) % 256]] :
           p \in RandomSeeds }

\* GenerateSecureSecret(length), read being what rand.Read did.
GenerateSecureSecret(length, read) ==
  IF length < 16 THEN [ok |-> FALSE, secret |-> <<>>]
  ELSE IF ~read.ok THEN [ok |-> FALSE, secret |-> <<>>]
  ELSE [ok |-> TRUE, secret |-> SubSeq(EncodeToString(read.bytes), 1, length)]

SecretLength == 64

\* (mutant) A secret is generated whenever CSRF is enabled.
NeedsSecretAlways(config) == config.Security.CSRFEnabled

NeedsSecret(config) ==
  config.Security.CSRFEnabled /\ config.Security.CSRFSecret = <<>>

\* (mutant) In production the rate limit is set to the defaults even when
\* it is already enabled.
ProductionDefaultsReset(config) ==
  IF config.App.Environment # Production THEN config
  ELSE [config EXCEPT
          !.App.Debug = FALSE,
          !.App.DevTools = FALSE,
          !.App.HotReload = FALSE,
          !.Security.RateLimitEnabled = TRUE,
          !.Security.RateLimitRPS = 100,
          !.Security.RateLimitBurst = 200,
          !.Database.SSLMode = IF @ = SSLDisable THEN SSLRequire ELSE @]

\* The production branch of applySecurityDefaults.
ProductionDefaults(config) ==
  IF config.App.Environment # Production THEN config
  ELSE [config EXCEPT
          !.App.Debug = FALSE,
          !.App.DevTools = FALSE,
          !.App.HotReload = FALSE,
          !.Security.RateLimitEnabled = TRUE,
          !.Security.RateLimitRPS =
             IF config.Security.RateLimitEnabled THEN @ ELSE 100,
          !.Security.RateLimitBurst =
             IF config.Security.RateLimitEnabled THEN @ ELSE 200,
          !.Database.SSLMode = IF @ = SSLDisable THEN SSLRequire ELSE @]

\* applySecurityDefaults(config) with generated the result of
\* GenerateSecureSecret: the error, the Config as the function leaves it
\* (it writes through the pointer), and the line it prints.
SecurityDefaults(config, generated) ==
  IF ~NeedsSecret(config)
    THEN [ok |-> TRUE, config |-> ProductionDefaults(config), printed |-> <<>>]
  ELSE IF ~generated.ok
    THEN [ok |-> FALSE, config |-> config, printed |-> <<>>]
  ELSE [ok |-> TRUE,
        config |-> ProductionDefaults(
                     [config EXCEPT !.Security.CSRFSecret = generated.secret]),
        printed |-> << <<"", "Generated secure CSRF secret", <<>>>> >>]

applySecurityDefaults(config, read) ==
  SecurityDefaults(config, GenerateSecureSecret(SecretLength, read))

\* LoadSecureConfig after LoadConfig returned the Config at addr with no
\* error: base is what LoadConfig came to, applied what applySecurityDefaults
\* did to the Config.
SecureFinish(base, addr, applied) ==
  /\ iniConfig' = base.ini
  /\ dirs' = base.dirs
  /\ instance' = addr
  /\ heap' = Collect([heap EXCEPT ![addr] = <<applied.config>>], {addr, appConfig})
  /\ result' = [Return("LoadSecureConfig", IF applied.ok THEN addr ELSE 0,
                       IF applied.ok THEN "none" ELSE "defaults", {}, FALSE, <<>>)
                  EXCEPT !.printed =
                    base.printed
                    \o Lines("Security Warning: ",
                             ValidateSecuritySettings(base.config[1]))
                    \o applied.printed]
  /\ UNCHANGED appConfig

\* LoadSecureConfig from the return of LoadConfig on.
SecureLoaded(base, addr, read) ==
  IF base.stage # "none"
    THEN Publish("LoadSecureConfig", FALSE, base, addr)
    ELSE SecureFinish(base, addr, applySecurityDefaults(base.config[1], read))

LoadSecureConfig ==
  /\ phase # "halted"
  /\ pc = "idle"
  /\ \E read \in RandomReads(SecretLength) :
       IF Cached(instance)
         THEN SecureLoaded(Outcome("none", {}, heap[instance], iniConfig, dirs, <<>>),
                           instance, read)
         ELSE SecureLoaded(Pipeline(configFile, appEnv, dirs, fsWritable),
                           NewAddr({instance, appConfig, result.config}), read)
  /\ UNCHANGED <<login, client, phase, configFile, appEnv, fsWritable, pc>>

(***************************************************************************)
(* Readers.                                                                *)
(***************************************************************************)
\* (mutant) GetConfig returns the nil instance instead of panicking.
GetConfigNil ==
  /\ phase # "halted"
  /\ result' = Return("GetConfig", instance, "none", {}, FALSE, <<>>)
  /\ heap' = Collect(heap, {instance, appConfig})
  /\ UNCHANGED <<login, client, phase, configFile, appEnv, fsWritable, dirs, iniConfig, instance,
                 appConfig, pc>>

GetConfig ==
  /\ phase # "halted"
  /\ result' = IF instance = 0
                 THEN Return("GetConfig", 0, "none", {}, TRUE, <<>>)
                 ELSE Return("GetConfig", instance, "none", {}, FALSE, <<>>)
  /\ heap' = Collect(heap, {instance, appConfig})
  /\ UNCHANGED <<login, client, phase, configFile, appEnv, fsWritable, dirs, iniConfig, instance,
                 appConfig, pc>>

\* (mutant) The projection carries the database section along.
PublicConfigLeaky(config) ==
  [ App |-> [ Environment |-> config.App.Environment,
              Name |-> config.App.Name,
              Version |-> config.App.Version,
              Debug |-> config.App.Debug ],
    API |-> [ Timeout |-> config.API.Timeout,
              RetryCount |-> config.API.RetryCount ],
    Window |-> [ Width |-> config.Window.Width,
                 Height |-> config.Window.Height,
                 Resizable |-> config.Window.Resizable,
                 Fullscreen |-> config.Window.Fullscreen ],
    Database |-> config.Database ]

PublicConfig(config) ==
  [ App |-> [ Environment |-> config.App.Environment,
              Name |-> config.App.Name,
              Version |-> config.App.Version,
              Debug |-> config.App.Debug ],
    API |-> [ Timeout |-> config.API.Timeout,
              RetryCount |-> config.API.RetryCount ],
    Window |-> [ Width |-> config.Window.Width,
                 Height |-> config.Window.Height,
                 Resizable |-> config.Window.Resizable,
                 Fullscreen |-> config.Window.Fullscreen ] ]

\* App.GetAppInfo, with what App.GetEnvironment and App.IsDebugMode return:
\* all read a.config.
GetAppInfo(config) ==
  [ Name |-> config.App.Name, Version |-> config.App.Version,
    Environment |-> config.App.Environment, Debug |-> config.App.Debug ]

GetPublicConfig ==
  /\ phase # "halted"
  /\ result' = IF instance = 0
                 THEN Return("GetPublicConfig", 0, "none", {}, TRUE, <<>>)
                 ELSE Return("GetPublicConfig", 0, "none", {}, FALSE,
                             <<PublicConfig(heap[instance][1])>>)
  /\ heap' = Collect(heap, {instance, appConfig})
  /\ UNCHANGED <<login, client, phase, configFile, appEnv, fsWritable, dirs, iniConfig, instance,
                 appConfig, pc>>

(***************************************************************************)
(* App.Login: one POST to <base URL>/identity/login, sent again after a    *)
(* transport error or a status of 500 or more, RetryCount times at most,   *)
(* with a sleep of RetryDelay in between; then the body is read and        *)
(* parsed.  The server and the network are the environment: each           *)
(* client.Do ends in a transport error, a response of status >= 500        *)
(* ("server"), a response of status < 500 ("answer"), or meets a peer that *)
(* never answers ("stall").  http.Client gives up on a stalled exchange    *)
(* when its Timeout runs out, and has no deadline when Timeout <= 0.       *)
(***************************************************************************)
LoginIdle ==
  [ pc |-> "idle", attempt |-> 0, trace |-> <<>>, resp |-> "nil",
    lastErr |-> FALSE, consumed |-> FALSE, body |-> "none", ret |-> "none" ]

\* a.config, the Config the App holds.
AppAPI == heap[appConfig][1].API

\* What client.Do may come to.  The request is built once, around one
\* bytes.Buffer: once an exchange has read the body, a later Do of the same
\* request has nothing to send and fails.
DoOutcomes(consumed) ==
  IF consumed THEN {"error"} ELSE {"error", "server", "answer", "stall"}

\* The outcome Do returns with for outcome: a stall ends in a timeout error
\* when the client has a deadline, and does not return otherwise.
Returned(outcome, timeout) ==
  IF outcome = "stall" THEN (IF timeout > 0 THEN "error" ELSE "blocked")
  ELSE outcome

\* (mutant) The loop goes on after a response of status below 500.
AfterDoRetryAll(outcome, attempt, retryCount) ==
  IF outcome = "blocked" THEN "blocked"
  ELSE IF attempt < retryCount THEN "sleep"
  ELSE "after"

\* Where the loop goes after a Do: out on an answer, to the sleep when
\* attempts remain, out when they do not.
AfterDo(outcome, attempt, retryCount) ==
  IF outcome = "blocked" THEN "blocked"
  ELSE IF outcome = "answer" THEN "after"
  ELSE IF attempt < retryCount THEN "sleep"
  ELSE "after"

\* What reading and parsing the body may come to: io.ReadAll fails, the
\* body is not JSON, the envelope has success false or true; or the peer
\* stalls while the body is read.
Bodies == {"unreadable", "malformed", "failure", "success", "stall"}

ReadBody(body, timeout) ==
  IF body = "stall" THEN (IF timeout > 0 THEN "unreadable" ELSE "blocked")
  ELSE body

\* (mutant) The envelope is returned whatever its success field.
LoginResultAnyEnvelope(lastErr, body) ==
  IF lastErr THEN "error"
  ELSE IF body \in {"success", "failure"} THEN "response"
  ELSE "error"

\* The return of Login: (nil, error) or (&loginResp, nil).
LoginResult(lastErr, body) ==
  IF lastErr THEN "error"
  ELSE IF body = "success" THEN "response"
  ELSE "error"

\* Login up to the loop.  (json.Marshal of two strings and http.NewRequest
\* on a base URL that passed the url tag do not fail.)
LoginCall ==
  /\ phase # "halted"
  /\ appConfig # 0
  /\ login.pc \in {"idle", "returned"}
  /\ login' = [LoginIdle EXCEPT
                 !.pc = IF 0 <= AppAPI.RetryCount THEN "do" ELSE "after"]
  /\ UNCHANGED <<client, configFile, appEnv, fsWritable, dirs, iniConfig, heap,
                 instance, appConfig, pc, result, phase>>

\* resp, lastErr = client.Do(req), and the rest of the loop body.
LoginDo ==
  /\ login.pc = "do"
  /\ \E outcome \in DoOutcomes(login.consumed), read \in BOOLEAN :
       login' =
         IF Returned(outcome, AppAPI.Timeout) = "blocked"
           THEN [login EXCEPT !.pc = "blocked"]
           ELSE [login EXCEPT
                   !.pc = AfterDo(Returned(outcome, AppAPI.Timeout),
                                  login.attempt, AppAPI.RetryCount),
                   !.trace = @ \o << <<Returned(outcome, AppAPI.Timeout), 0>> >>,
                   !.resp = IF Returned(outcome, AppAPI.Timeout) = "error"
                              THEN "nil" ELSE outcome,
                   !.lastErr = (Returned(outcome, AppAPI.Timeout) = "error"),
                   !.consumed = (outcome \in {"server", "answer"} \/ read)]
  /\ UNCHANGED <<client, configFile, appEnv, fsWritable, dirs, iniConfig, heap,
                 instance, appConfig, pc, result, phase>>

\* time.Sleep(a.config.API.RetryDelay), attempt++ and the loop test.
LoginSleep ==
  /\ login.pc = "sleep"
  /\ login' = [login EXCEPT
                 !.pc = IF login.attempt + 1 <= AppAPI.RetryCount
                          THEN "do" ELSE "after",
                 !.attempt = @ + 1,
                 !.trace = @ \o << <<"sleep", AppAPI.RetryDelay>> >>]
  /\ UNCHANGED <<client, configFile, appEnv, fsWritable, dirs, iniConfig, heap,
                 instance, appConfig, pc, result, phase>>

\* Login below the loop.
LoginReturn ==
  /\ login.pc = "after"
  /\ \E body \in Bodies :
       login' =
         IF login.lastErr
           THEN [login EXCEPT !.pc = "returned", !.ret = "error"]
         ELSE IF ReadBody(body, AppAPI.Timeout) = "blocked"
           THEN [login EXCEPT !.pc = "blocked"]
         ELSE [login EXCEPT
                 !.pc = "returned",
                 !.body = ReadBody(body, AppAPI.Timeout),
                 !.ret = LoginResult(FALSE, ReadBody(body, AppAPI.Timeout))]
  /\ UNCHANGED <<client, configFile, appEnv, fsWritable, dirs, iniConfig, heap,
                 instance, appConfig, pc, result, phase>>

(***************************************************************************)
(* The frontend's ApiClient (api-client.ts): the response interceptor, the *)
(* queue of requests that met a 401 during a token refresh, and the        *)
(* refresh.  JavaScript runs one handler at a time: an action is a handler *)
(* up to its first await on the network, or the continuation after it.     *)
(* A token is a number, 0 for null or undefined.  A request is "new",      *)
(* "sent", "queued" (its promise is in failedQueue), "awaiting" (its       *)
(* handler awaits the refresh), "resolved", "rejected", or "abandoned"     *)
(* (its promise can no longer be settled).                                 *)
(***************************************************************************)
MaxRequests == 3

Requests == 1..MaxRequests

NewApiClient ==
  [ accessToken |-> 0, refreshToken |-> 0, isRefreshing |-> FALSE,
    failedQueue |-> <<>>,
    st |-> [r \in Requests |-> "new"],
    retry |-> [r \in Requests |-> FALSE],
    auth |-> [r \in Requests |-> 0],
    refreshes |-> 0, minted |-> 1, logouts |-> 0 ]

\* Whether request r has a promise in failedQueue.
InQueue(queue, r) == \E i \in 1..Len(queue) : queue[i] = r

\* processQueue(error, token): each queued promise is rejected on an error,
\* resolved on a token (its then-handler sets the header and sends the
\* request again), and left pending when there is neither; the queue is
\* replaced by an empty one.
processQueue(c, failed, token) ==
  [c EXCEPT
     !.st = [r \in Requests |->
               IF ~InQueue(c.failedQueue, r) THEN c.st[r]
               ELSE IF failed THEN "rejected"
               ELSE IF token # 0 THEN "sent"
               ELSE "abandoned"],
     !.auth = [r \in Requests |->
                 IF InQueue(c.failedQueue, r) /\ ~failed /\ token # 0
                   THEN token ELSE c.auth[r]],
     !.failedQueue = <<>>]

\* clearTokens and the auth:logout event.
LoggedOut(c) ==
  [c EXCEPT !.accessToken = 0, !.refreshToken = 0, !.logouts = @ + 1]

\* The catch and finally blocks of the interceptor, for request r.
RefreshFailed(c, r) ==
  [LoggedOut(processQueue(c, TRUE, 0)) EXCEPT
     !.st[r] = "rejected", !.isRefreshing = FALSE]

\* The rest of the try block and the finally block, for request r, once
\* refreshAccessToken has returned access (setTokens has run).
RefreshSucceeded(c, r, access, refresh) ==
  [processQueue([c EXCEPT !.accessToken = access, !.refreshToken = refresh],
                FALSE, access)
     EXCEPT !.st[r] = "sent", !.auth[r] = access, !.isRefreshing = FALSE]

\* instance.request(config): the request interceptor adds the token.
Send ==
  /\ \E r \in Requests :
       /\ client.st[r] = "new"
       /\ client' = [client EXCEPT !.st[r] = "sent",
                                   !.auth[r] = client.accessToken]
  /\ UNCHANGED <<login, configFile, appEnv, fsWritable, dirs, iniConfig, heap,
                 instance, appConfig, pc, result, phase>>

\* A response of status 2xx.
Respond ==
  /\ \E r \in Requests :
       /\ client.st[r] = "sent"
       /\ client' = [client EXCEPT !.st[r] = "resolved"]
  /\ UNCHANGED <<login, configFile, appEnv, fsWritable, dirs, iniConfig, heap,
                 instance, appConfig, pc, result, phase>>

\* An error that is not a first 401: rejected with handleError(error).
RespondError ==
  /\ \E r \in Requests :
       /\ client.st[r] = "sent"
       /\ client' = [client EXCEPT !.st[r] = "rejected"]
  /\ UNCHANGED <<login, configFile, appEnv, fsWritable, dirs, iniConfig, heap,
                 instance, appConfig, pc, result, phase>>

\* The error handler for a 401 on request r: rejected when the request was
\* tried again already, queued during a refresh, else the start of a
\* refresh (with no refresh token refreshAccessToken throws at once).
Respond401 ==
  /\ \E r \in Requests :
       /\ client.st[r] = "sent"
       /\ client' =
            IF client.retry[r] THEN [client EXCEPT !.st[r] = "rejected"]
            ELSE IF client.isRefreshing
              THEN [client EXCEPT !.st[r] = "queued",
                                  !.failedQueue = Append(@, r)]
            ELSE IF client.refreshToken = 0
              THEN RefreshFailed([client EXCEPT !.retry[r] = TRUE], r)
            ELSE [client EXCEPT !.retry[r] = TRUE, !.isRefreshing = TRUE,
                                !.st[r] = "awaiting", !.refreshes = @ + 1]
  /\ UNCHANGED <<login, configFile, appEnv, fsWritable, dirs, iniConfig, heap,
                 instance, appConfig, pc, result, phase>>

\* What POST /api/auth/refresh may come to: a pair of new tokens, a reply
\* whose data has no accessToken (or no refreshToken), or an error.
RefreshReplies == {"tokens", "no access token", "no refresh token", "error"}

\* The continuation of the handler of request r after the await.
RefreshDone ==
  /\ \E r \in Requests, reply \in RefreshReplies :
       /\ client.st[r] = "awaiting"
       /\ client' =
            IF reply = "error"
              THEN RefreshFailed([client EXCEPT !.refreshes = @ - 1], r)
              ELSE RefreshSucceeded(
                     [client EXCEPT !.refreshes = @ - 1, !.minted = @ + 1],
                     r,
                     IF reply = "no access token" THEN 0 ELSE client.minted + 1,
                     IF reply = "no refresh token" THEN 0 ELSE client.minted + 1)
  /\ UNCHANGED <<login, configFile, appEnv, fsWritable, dirs, iniConfig, heap,
                 instance, appConfig, pc, result, phase>>

(***************************************************************************)
(* The environment: the file and the variable change under the program.    *)
(***************************************************************************)
WriteConfigFile ==
  /\ \E f \in LifeFiles : f # configFile /\ configFile' = f
  /\ UNCHANGED <<login, client, phase, appEnv, fsWritable, dirs, iniConfig, heap, instance,
                 appConfig, pc, result>>

SetAppEnv ==
  /\ \E e \in LifeEnvTexts : e # appEnv /\ appEnv' = e
  /\ UNCHANGED <<login, client, phase, configFile, fsWritable, dirs, iniConfig, heap, instance,
                 appConfig, pc, result>>

(***************************************************************************)
(* Specifications.                                                         *)
(***************************************************************************)
InitProgram ==
  /\ dirs = {<<".">>, <<"/">>}
  /\ iniConfig = <<>>
  /\ heap = [a \in Addrs |-> <<>>]
  /\ instance = 0
  /\ appConfig = 0
  /\ pc = "idle"
  /\ phase = "start"
  /\ login = LoginIdle
  /\ client = NewApiClient
  /\ result = [ op |-> "none", config |-> 0, stage |-> "none", fields |-> {},
                panic |-> FALSE, public |-> <<>>, during |-> "idle",
                printed |-> <<>>, fatal |-> "", environment |-> <<>>,
                returned |-> <<>> ]

(***************************************************************************)
(* The validators called on their own.  NewSecurityValidator(config) and   *)
(* NewEnvironmentValidator(env) are exported: a caller builds any Config   *)
(* and gets the findings back.  The Config is the one the caller holds     *)
(* (result.config).                                                        *)
(***************************************************************************)
\* The Config of a config.ini that sets the API base URL only.
BaseConfig == NewConfig(<<BaseSource>>, <<>>)

PolicyURLs ==
  { <<"h", "t", "t", "p", "s", ":", "/", "/", "a", "p", "i", ".", "t", "e", "s", "t">>, <<"h", "t", "t", "p", ":", "/", "/", "l", "o", "c", "a", "l", "h", "o", "s", "t", ":", "8", "0">>, <<"h", "t", "t", "p", ":", "/", "/", "1", "2", "7", ".", "0", ".", "0", ".", "1">>,
    <<"h", "t", "t", "p", "s", ":", "/", "/", "a", ".", "i", "o">>, <<"h", "t", "t", "p", ":", "/", "/", "a", ".", "i", "o">> }

\* Configs that differ in the fields the environment rules read.
PolicyConfigs ==
  { [BaseConfig EXCEPT !.App.Debug = debug, !.App.DevTools = tools,
                       !.API.BaseURL = url, !.API.Timeout = timeout,
                       !.Database.SSLMode = ssl,
                       !.Security.RateLimitEnabled = limited] :
      debug \in BOOLEAN, tools \in BOOLEAN, url \in PolicyURLs,
      timeout \in {9 * Second, 10 * Second, 30 * Second},
      ssl \in {SSLDisable, SSLRequire}, limited \in BOOLEAN }

OriginLists ==
  { <<>>, << <<"*">> >>, << <<"h", "t", "t", "p", ":", "/", "/", "a", ".", "t", "e", "s", "t", ":", "1">> >>,
    << <<"h", "t", "t", "p", ":", "/", "/", "a", ".", "t", "e", "s", "t", ":", "1">>, <<"f", "t", "p", ":", "/", "/", "x">>, <<"h", "t", "t", "p", ":", "/", "/", "l", "o", "c", "a", "l", "h", "o", "s", "t">> >>,
    << <<"h", "t", "t", "p", "s", ":", "/", "/", "1", "2", "7", ".", "0", ".", "0", ".", "1", ":", "8", "0", "8", "0">>, <<"a", ".", "t", "e", "s", "t">>, <<"h", "t", "t", "p", "s", ":", "/", "/", "b", ".", "t", "e", "s", "t", ":">> >> }

SecretTexts ==
  { <<>>, <<"s", "3", "c", "r", "3", "t">>, <<"0", "1", "2", "3", "4", "5", "6", "7", "8", "9", "a", "b", "c", "d", "e", "f", "0", "1", "2", "3", "4", "5", "6", "7", "8", "9", "a", "b", "c", "d", "e">>,
    <<"0", "1", "2", "3", "4", "5", "6", "7", "8", "9", "a", "b", "c", "d", "e", "f", "0", "1", "2", "3", "4", "5", "6", "7", "8", "9", "a", "b", "c", "d", "e", "f">> }

\* Configs that differ in the fields the security rules read.
SecurityConfigs ==
  { [BaseConfig EXCEPT !.App.Environment = env, !.App.Debug = debug,
                       !.API.Timeout = timeout, !.Database.SSLMode = ssl,
                       !.Security =
                         [ CORSEnabled |-> cors, CORSOrigins |-> origins,
                           RateLimitEnabled |-> limited, RateLimitRPS |-> rps,
                           RateLimitBurst |-> burst, CSRFEnabled |-> csrf,
                           CSRFSecret |-> secret ]] :
      env \in {Development, Staging, Production}, debug \in BOOLEAN,
      timeout \in {60 * Second, 61 * Second}, ssl \in {SSLDisable, SSLRequire},
      cors \in BOOLEAN, origins \in OriginLists, limited \in BOOLEAN,
      rps \in {0, 100}, burst \in {-1, 200}, csrf \in BOOLEAN,
      secret \in SecretTexts }

\* The environments a validator is made for; "qa" and "" have no rules.
PolicyEnvs == { <<>>, Development, Staging, Production, <<"q", "a">> }

\* NewSecurityValidator(config).ValidateSecuritySettings()
SecurityValidator ==
  /\ phase # "halted"
  /\ pc = "idle"
  /\ result.config # 0
  /\ result' = [Return("ValidateSecuritySettings", result.config, "none", {},
                       FALSE, <<>>)
                  EXCEPT !.returned =
                    ValidateSecuritySettings(heap[result.config][1])]
  /\ UNCHANGED <<login, client, configFile, appEnv, fsWritable, dirs, iniConfig, heap,
                 instance, appConfig, pc, phase>>

\* NewEnvironmentValidator(env).ValidateEnvironment(config)
EnvironmentValidator ==
  /\ phase # "halted"
  /\ pc = "idle"
  /\ result.config # 0
  /\ \E env \in PolicyEnvs :
       result' = [Return("ValidateEnvironment", result.config, "none", {},
                         FALSE, <<>>)
                    EXCEPT !.environment = env,
                           !.returned =
                             ValidateEnvironment(env, heap[result.config][1])]
  /\ UNCHANGED <<login, client, configFile, appEnv, fsWritable, dirs, iniConfig, heap,
                 instance, appConfig, pc, phase>>

\* The caller has built a Config, at address 1.
InitValidators ==
  /\ configFile = ParsedFile(BaseSource)
  /\ appEnv = <<>>
  /\ fsWritable = TRUE
  /\ dirs = {<<".">>, <<"/">>}
  /\ iniConfig = <<>>
  /\ \E c \in PolicyConfigs \cup SecurityConfigs :
       heap = [a \in Addrs |-> IF a = 1 THEN <<c>> ELSE <<>>]
  /\ instance = 0
  /\ appConfig = 0
  /\ pc = "idle"
  /\ phase = "start"
  /\ login = LoginIdle
  /\ client = NewApiClient
  /\ result = [Return("none", 1, "none", {}, FALSE, <<>>) EXCEPT !.during = "idle"]

Validators ==
  \/ SecurityValidator
  \/ EnvironmentValidator

SpecValidators == InitValidators /\ [][Validators]_vars

\* The lifecycle: a few files, and an environment that changes.
Init ==
  /\ configFile \in LifeFiles
  /\ appEnv \in LifeEnvTexts
  /\ fsWritable = TRUE
  /\ InitProgram

Program ==
  \/ Main
  \/ LoadConfig
  \/ NewApp
  \/ ReloadClear
  \/ ReloadLoad
  \/ LoadSecureConfig
  \/ GetConfig
  \/ GetPublicConfig

Next ==
  \/ Program
  \/ WriteConfigFile
  \/ SetAppEnv

Spec == Init /\ [][Next]_vars

\* The input space: every file of WideFiles, and an environment that stays.
InitFiles ==
  /\ configFile \in WideFiles
  /\ appEnv \in EnvTexts
  /\ fsWritable \in BOOLEAN
  /\ InitProgram

SpecFiles == InitFiles /\ [][Program]_vars

\* Login: an App made from a config.ini that sets the retry count, the
\* timeout and the retry delay, and nothing reloaded.
MaxRetries == 2

DecimalDigit(n) == CHOOSE c \in Digits : DigitVal(c) = n

LoginFiles ==
  { ParsedFile(WithEdits(BaseSource,
      { <<<<"api", "retry_count">>, <<DecimalDigit(n)>>>>,
        <<<<"api", "timeout">>, timeout>>,
        <<<<"api", "retry_delay">>, delay>> })) :
      n \in 0..MaxRetries, timeout \in { <<"3", "0", "s">>, <<"-", "5", "s">> },
      delay \in { <<"2", "s">>, <<"0">> } }

InitLogin ==
  /\ configFile \in LoginFiles
  /\ appEnv = <<>>
  /\ fsWritable = TRUE
  /\ InitProgram

NextLogin ==
  \/ NewApp
  \/ LoginCall
  \/ LoginDo
  \/ LoginSleep
  \/ LoginReturn

SpecLogin == InitLogin /\ [][NextLogin]_vars

\* The scheduler runs the goroutine of Login whenever it can go on.
FairLogin ==
  /\ SpecLogin
  /\ WF_vars(LoginDo)
  /\ WF_vars(LoginSleep)
  /\ WF_vars(LoginReturn)

\* The frontend: a client made with whatever tokens localStorage holds.
InitClient ==
  /\ configFile = ParsedFile(BaseSource)
  /\ appEnv = <<>>
  /\ fsWritable = TRUE
  /\ dirs = {<<".">>, <<"/">>}
  /\ iniConfig = <<>>
  /\ heap = [a \in Addrs |-> <<>>]
  /\ instance = 0
  /\ appConfig = 0
  /\ pc = "idle"
  /\ phase = "start"
  /\ login = LoginIdle
  /\ result = [Return("none", 0, "none", {}, FALSE, <<>>) EXCEPT !.during = "idle"]
  /\ \E access \in {0, 1}, refresh \in {0, 1} :
       client = [NewApiClient EXCEPT !.accessToken = access,
                                     !.refreshToken = refresh]

NextClient ==
  \/ Send
  \/ Respond
  \/ RespondError
  \/ Respond401
  \/ RefreshDone

SpecClient == InitClient /\ [][NextClient]_vars

(***************************************************************************)
(* Properties.                                                             *)
(***************************************************************************)
Loaders == {"LoadConfig", "NewApp", "ReloadConfig", "App.ReloadConfig"}

Readers == {"GetConfig", "GetPublicConfig"}

\* The Config at address a.
At(a) == heap[a][1]

\* C1: if a Reload fails while a snapshot is published, the published
\* snapshot stays: after a failed App.ReloadConfig the package still
\* publishes the snapshot the App holds.
C1_FailedReloadKeepsSnapshot ==
  (pc = "idle" /\ result.op = "App.ReloadConfig" /\ result.stage # "none")
    => instance = appConfig

\* C2: a LoadConfig called while a snapshot is published returns that very
\* snapshot and runs nothing: the pointer, the object, iniConfig and the
\* disk are as they were, whatever the file and APP_ENV have become.
C2_LoadReturnsPublished ==
  [][(instance # 0 /\ LoadConfig)
       => /\ result'.config = instance
          /\ result'.stage = "none"
          /\ instance' = instance
          /\ heap'[instance] = heap[instance]
          /\ iniConfig' = iniConfig
          /\ dirs' = dirs]_vars

\* A LoadConfig has returned the published snapshot although config.ini has
\* gone since and APP_ENV no longer is the snapshot's environment.
C2_Witness ==
  /\ result.op = "LoadConfig"
  /\ result.stage = "none"
  /\ instance # 0
  /\ result.config = instance
  /\ configFile = MissingFile
  /\ appEnv # <<>>
  /\ At(instance).App.Environment # appEnv

\* C3: a reader running while App.ReloadConfig is between its two statements
\* does not fail: it gets a snapshot.
C3_ReaderDuringReload ==
  (result.op \in Readers /\ result.during = "App.ReloadConfig")
    => ~result.panic

ErrorFields(r) == {f[1] : f \in r.fields}

\* The Config that has the whitelisted fields of config and, everywhere
\* else, the values of other.
WithRestOf(config, other) ==
  [other EXCEPT !.App.Environment = config.App.Environment,
                !.App.Name = config.App.Name,
                !.App.Version = config.App.Version,
                !.App.Debug = config.App.Debug,
                !.API.Timeout = config.API.Timeout,
                !.API.RetryCount = config.API.RetryCount,
                !.Window.Width = config.Window.Width,
                !.Window.Height = config.Window.Height,
                !.Window.Resizable = config.Window.Resizable,
                !.Window.Fullscreen = config.Window.Fullscreen]

\* A Config that differs from the defaults in every section.
OtherConfig ==
  NewConfig(<<[k \in Keys |->
                 IF k \in IntKeys THEN <<"7">>
                 ELSE IF k \in BoolKeys THEN <<"f", "a", "l", "s", "e">>
                 ELSE IF k \in DurationKeys THEN <<"5", "m">>
                 ELSE <<"x">>]>>, <<>>)

\* pub has the whitelisted fields and no others, each with config's value.
ProjectionOf(pub, config) ==
  /\ DOMAIN pub = {"App", "API", "Window"}
  /\ DOMAIN pub.App = {"Environment", "Name", "Version", "Debug"}
  /\ DOMAIN pub.API = {"Timeout", "RetryCount"}
  /\ DOMAIN pub.Window = {"Width", "Height", "Resizable", "Fullscreen"}
  /\ pub.App.Environment = config.App.Environment
  /\ pub.App.Name = config.App.Name
  /\ pub.App.Version = config.App.Version
  /\ pub.App.Debug = config.App.Debug
  /\ pub.API.Timeout = config.API.Timeout
  /\ pub.API.RetryCount = config.API.RetryCount
  /\ pub.Window.Width = config.Window.Width
  /\ pub.Window.Height = config.Window.Height
  /\ pub.Window.Resizable = config.Window.Resizable
  /\ pub.Window.Fullscreen = config.Window.Fullscreen

\* C5: the public projection has the whitelisted fields only, each equal to
\* the field of the current snapshot, and any Config that agrees with the
\* snapshot on the whitelisted fields (whatever its passwords, secrets and
\* other sections) has the same projection.
C5_PublicProjection ==
  (result.op = "GetPublicConfig" /\ ~result.panic /\ instance # 0)
    => /\ ProjectionOf(result.public[1], At(instance))
       /\ PublicConfig(WithRestOf(At(instance), OtherConfig)) = result.public[1]
       /\ PublicConfig([At(instance) EXCEPT !.Database.Password = <<>>,
                                            !.Security.CSRFSecret = <<>>])
            = result.public[1]

\* The projection of a snapshot that holds a database password was taken.
C5_Witness ==
  /\ result.op = "GetPublicConfig"
  /\ result.public # <<>>
  /\ instance # 0
  /\ At(instance).Database.Password = <<"h", "u", "n", "t", "e", "r", "2">>
  /\ WithRestOf(At(instance), OtherConfig) # At(instance)

\* C6: LoadConfig on a config.ini with no keys, APP_ENV unset, succeeds, and
\* the snapshot is the development one with debug and dev-tools on.
C6_EmptySourceDefaults ==
  (result.op = "LoadConfig" /\ configFile = ParsedFile(EmptySource) /\ appEnv = <<>>)
    => /\ result.stage = "none"
       /\ instance # 0
       /\ At(instance).App.Environment = Development
       /\ At(instance).App.Debug
       /\ At(instance).App.DevTools

\* The texts of the three-invalid-fields scenario.
HasText(section, key, text) ==
  configFile.status = "ok" /\ configFile.kv[<<section, key>>] = text

ThreeFields ==
  { <<"Window", "Width">>, <<"Log", "Level">>, <<"Database", "Port">> }

\* C7 (as claimed): with an out-of-range window width, an invalid log level
\* and a non-numeric database port, LoadConfig fails with an error that
\* mentions all three fields.
C7_ThreeInvalidFields ==
  ( /\ result.op = "LoadConfig"
    /\ HasText("window", "width", <<"7">>)
    /\ HasText("log", "level", <<"v", "e", "r", "b", "o", "s", "e">>)
    /\ HasText("database", "port", <<"a", "b", "c">>) )
    => result.stage = "validation" /\ ThreeFields \subseteq ErrorFields(result)

\* C7 (amended): with an out-of-range window width, an invalid log level and
\* an out-of-range database port, LoadConfig fails with one error that
\* mentions all three fields; a non-numeric port reads as the default port
\* and the error mentions the other two fields only.
C7_ThreeOutOfRangeFields ==
  ( /\ result.op = "LoadConfig"
    /\ HasText("window", "width", <<"7">>)
    /\ HasText("log", "level", <<"v", "e", "r", "b", "o", "s", "e">>) )
    => /\ result.stage = "validation"
       /\ HasText("database", "port", <<"7", "0", "0", "0", "0">>)
            => ThreeFields \subseteq ErrorFields(result)
       /\ HasText("database", "port", <<"a", "b", "c">>)
            => ThreeFields \cap ErrorFields(result)
                 = { <<"Window", "Width">>, <<"Log", "Level">> }

\* LoadConfig has failed on the file with the three out-of-range fields.
C7_Witness ==
  /\ result.op = "LoadConfig"
  /\ result.stage = "validation"
  /\ HasText("window", "width", <<"7">>)
  /\ HasText("log", "level", <<"v", "e", "r", "b", "o", "s", "e">>)
  /\ HasText("database", "port", <<"7", "0", "0", "0", "0">>)
  /\ Cardinality(result.fields) = 3

\* The constraint each edit of FocusEdits violates, taken alone.
ViolationOf(e) ==
  CASE e = <<<<"window", "width">>, <<"7">>>> -> { <<<<"Window", "Width">>, "min">> }
    [] e = <<<<"log", "level">>, <<"v", "e", "r", "b", "o", "s", "e">>>> -> { <<<<"Log", "Level">>, "oneof">> }
    [] e = <<<<"database", "port">>, <<"7", "0", "0", "0", "0">>>> -> { <<<<"Database", "Port">>, "max">> }
    [] e = <<<<"app", "version">>, <<"2", ".", "1">>>> -> { <<<<"App", "Version">>, "semver">> }
    [] e = <<<<"cache", "ttl">>, <<"0">>>> -> { <<<<"Cache", "TTL">>, "min">> }
    [] e = <<<<"api", "base_url">>, <<>>>> -> { <<<<"API", "BaseURL">>, "required">> }
    [] OTHER -> {}

\* The edits of FocusEdits that config.ini holds.
PresentEdits == {e \in FocusEdits : HasText(e[1][1], e[1][2], e[2])}

\* C8: when struct validation fails, LoadConfig returns one error that lists
\* every violated constraint (each violation in config.ini is in it, not
\* only the first), returns no Config and publishes nothing.
C8_AggregatedError ==
  (result.op = "LoadConfig" /\ result.stage = "validation")
    => /\ instance = 0
       /\ result.config = 0
       /\ result.fields # {}
       /\ \A e \in PresentEdits : ViolationOf(e) \subseteq result.fields

\* LoadConfig has failed with an error listing violations of three sections.
C8_Witness ==
  /\ result.op = "LoadConfig"
  /\ result.stage = "validation"
  /\ instance = 0
  /\ Cardinality(UNION {ViolationOf(e) : e \in PresentEdits}) = 3
  /\ Cardinality(result.fields) >= 3

\* The field of Config that each typed key of config.ini is loaded into.
KeyField(k) ==
  CASE k = <<"app", "debug">> -> <<"App", "Debug">>
    [] k = <<"development", "hot_reload">> -> <<"App", "HotReload">>
    [] k = <<"development", "dev_tools">> -> <<"App", "DevTools">>
    [] k = <<"development", "mock_api">> -> <<"App", "MockAPI">>
    [] k = <<"api", "timeout">> -> <<"API", "Timeout">>
    [] k = <<"api", "retry_count">> -> <<"API", "RetryCount">>
    [] k = <<"api", "retry_delay">> -> <<"API", "RetryDelay">>
    [] k = <<"api", "max_idle_conn">> -> <<"API", "MaxIdleConn">>
    [] k = <<"auth", "token_expiry">> -> <<"Auth", "TokenExpiry">>
    [] k = <<"auth", "refresh_threshold">> -> <<"Auth", "RefreshThreshold">>
    [] k = <<"auth", "max_login_attempts">> -> <<"Auth", "MaxLoginAttempts">>
    [] k = <<"auth", "lockout_duration">> -> <<"Auth", "LockoutDuration">>
    [] k = <<"auth", "session_timeout">> -> <<"Auth", "SessionTimeout">>
    [] k = <<"auth", "remember_me_duration">> -> <<"Auth", "RememberMeDuration">>
    [] k = <<"log", "max_size">> -> <<"Log", "MaxSize">>
    [] k = <<"log", "max_backups">> -> <<"Log", "MaxBackups">>
    [] k = <<"log", "max_age">> -> <<"Log", "MaxAge">>
    [] k = <<"log", "compress">> -> <<"Log", "Compress">>
    [] k = <<"database", "port">> -> <<"Database", "Port">>
    [] k = <<"database", "max_open_conns">> -> <<"Database", "MaxOpenConns">>
    [] k = <<"database", "max_idle_conns">> -> <<"Database", "MaxIdleConns">>
    [] k = <<"database", "conn_lifetime">> -> <<"Database", "ConnLifetime">>
    [] k = <<"security", "cors_enabled">> -> <<"Security", "CORSEnabled">>
    [] k = <<"security", "rate_limit_enabled">> -> <<"Security", "RateLimitEnabled">>
    [] k = <<"security", "rate_limit_rps">> -> <<"Security", "RateLimitRPS">>
    [] k = <<"security", "rate_limit_burst">> -> <<"Security", "RateLimitBurst">>
    [] k = <<"security", "csrf_enabled">> -> <<"Security", "CSRFEnabled">>
    [] k = <<"window", "width">> -> <<"Window", "Width">>
    [] k = <<"window", "height">> -> <<"Window", "Height">>
    [] k = <<"window", "resizable">> -> <<"Window", "Resizable">>
    [] k = <<"window", "fullscreen">> -> <<"Window", "Fullscreen">>
    [] k = <<"window", "maximized">> -> <<"Window", "Maximized">>
    [] k = <<"window", "minimized">> -> <<"Window", "Minimized">>
    [] k = <<"window", "always_on_top">> -> <<"Window", "AlwaysOnTop">>
    [] k = <<"cache", "enabled">> -> <<"Cache", "Enabled">>
    [] k = <<"cache", "ttl">> -> <<"Cache", "TTL">>
    [] k = <<"cache", "max_size">> -> <<"Cache", "MaxSize">>
    [] k = <<"cache", "max_items">> -> <<"Cache", "MaxItems">>
    [] k = <<"cache", "compression_enabled">> -> <<"Cache", "CompressionEnabled">>

TypedKeys == IntKeys \cup BoolKeys \cup DurationKeys

FieldOf(config, k) == config[KeyField(k)[1]][KeyField(k)[2]]

\* The value each well-formed text stands for; the other texts of the
\* typed keys are malformed.
IntValue(t) ==
  CASE t = <<"7">> -> <<7>> [] t = <<"0">> -> <<0>> [] t = <<"5", "0", "0">> -> <<500>>
    [] t = <<"7", "0", "0", "0", "0">> -> <<70000>> [] t = <<"-", "1">> -> <<-1>>
    [] t = <<"0", "1", "0">> -> <<10>> [] OTHER -> <<>>

BoolValue(t) ==
  CASE t = <<"t", "r", "u", "e">> -> <<TRUE>> [] t = <<"T", "R", "U", "E">> -> <<TRUE>>
    [] t = <<"f", "a", "l", "s", "e">> -> <<FALSE>> [] OTHER -> <<>>

DurationValue(t) ==
  CASE t = <<"3", "0", "s">> -> <<30>> [] t = <<"3", "0">> -> <<30>> [] t = <<"5", "m">> -> <<300>>
    [] t = <<"2", "h">> -> <<7200>> [] t = <<"1", "h", "3", "0", "m">> -> <<5400>> [] t = <<"0">> -> <<0>>
    [] t = <<"9", "0", "0", "0", "0">> -> <<90000>>
    [] t = <<"3", "6", "0", "2", "8", "7", "9", "7", "0", "1", "8", "9", "6", "3", "9", "9", "8">> -> <<Huge>>
    [] OTHER -> <<>>

ValueOf(k, t) ==
  IF k \in IntKeys THEN IntValue(t)
  ELSE IF k \in BoolKeys THEN BoolValue(t)
  ELSE DurationValue(t)

\* The typed keys whose text in config.ini is present and malformed.
Malformed ==
  {k \in TypedKeys : configFile.kv[k] # <<>> /\ ValueOf(k, configFile.kv[k]) = <<>>}

\* The Config of a config.ini with no keys.
DefaultConfig == NewConfig(<<EmptySource>>, <<>>)

\* C9: a typed key whose text is well-formed (a decimal integer, a
\* recognised boolean, a duration) loads as the value the text stands for,
\* never as the default; a key whose text is malformed loads as the key's
\* default, exactly as if the key were absent, and is never by itself in the
\* validation error.
C9_ExplicitOrDefault ==
  (result.op = "LoadConfig" /\ configFile.status = "ok")
    => /\ instance # 0
            => \A k \in TypedKeys :
                 IF configFile.kv[k] = <<>> \/ k \in Malformed
                 THEN FieldOf(At(instance), k) = FieldOf(DefaultConfig, k)
                 ELSE FieldOf(At(instance), k) = ValueOf(k, configFile.kv[k])[1]
       /\ result.stage = "validation"
            => \A k \in Malformed : KeyField(k) \notin ErrorFields(result)
       /\ ( /\ Malformed # {}
            /\ appEnv \in {<<>>, Development, Staging, Production}
            /\ configFile.kv = WithEdits(BaseSource,
                                 {<<k, configFile.kv[k]>> : k \in Malformed}) )
            => result.stage = "none"

\* C11: GetConfig returns the published snapshot (the Config instance points
\* to, the one the last successful load published) and never a nil or a
\* default Config; with nothing published it panics, and nothing is
\* published before a load has succeeded (main and LoadSecureConfig publish
\* by the LoadConfig they call; LoadSecureConfig whatever it returns itself).
C11_GetConfigOrPanic ==
  [][ /\ GetConfig
        => /\ result'.op = "GetConfig"
           /\ result'.panic <=> instance = 0
           /\ result'.config = instance
           /\ instance # 0 => heap'[result'.config] = heap[instance]
           /\ instance' = instance
      /\ (instance = 0 /\ instance' # 0)
        => \/ /\ result'.op \in Loaders \cup {"main"}
              /\ result'.stage = "none"
              /\ result'.config = instance'
           \/ /\ result'.op = "LoadSecureConfig"
              /\ result'.stage \in {"none", "defaults"} ]_vars

\* GetConfig has panicked with no load run yet.
C11_Witness ==
  /\ result.op = "GetConfig"
  /\ result.panic
  /\ iniConfig = <<>>
  /\ instance = 0

\* The tags of the struct validator.
StructTags == {"required", "min", "max", "oneof", "url", "semver"}

\* C13: the findings of the environment and security validators never make
\* a load or reload fail and are never in its error: a run that got as far
\* as printing findings fails only if the adjustments fail, whatever the
\* number of findings, and an error lists failed struct tags only.
C13_AdvisoriesNeverBlock ==
  (result.op \in Loaders /\ pc = "idle")
    => /\ (result.printed # <<>> /\ result.stage # "adjustment")
            => result.stage = "none" /\ instance # 0 /\ result.config = instance
       /\ result.stage \in {"none", "source", "validation", "adjustment"}
       /\ \A f \in result.fields : f[2] \in StructTags
       /\ result.stage = "validation" => result.printed = <<>>

\* A load in production has printed five findings or more and published.
C13_Witness ==
  /\ result.op \in Loaders
  /\ pc = "idle"
  /\ result.stage = "none"
  /\ instance # 0
  /\ Len(result.printed) >= 5
  /\ \E i \in 1..Len(result.printed) :
       result.printed[i][1] = "Environment Validation Error: "
  /\ \E i \in 1..Len(result.printed) :
       result.printed[i][1] = "Security Warning: "

\* C12: between two reloads the published snapshot keeps its field values:
\* no step other than the two steps of ReloadConfig (a repeated LoadConfig,
\* a projection, LoadSecureConfig, a reader) changes the Config instance
\* points to, or any field of it.
C12_SnapshotUnchanged ==
  [][ (instance # 0 /\ pc = "idle" /\ pc' = "idle")
        => instance' = instance /\ heap'[instance'] = heap[instance] ]_vars

InRange(v, lo, hi) == lo <= v /\ v <= hi

\* The structural constraints, field by field; durations in seconds.
Structural(c) ==
  /\ c.App.Environment \in {<<"d", "e", "v", "e", "l", "o", "p", "m", "e", "n", "t">>, <<"s", "t", "a", "g", "i", "n", "g">>, <<"p", "r", "o", "d", "u", "c", "t", "i", "o", "n">>}
  /\ InRange(Len(c.App.Name), 1, 100)
  /\ c.App.Version # <<>>
  /\ c.API.BaseURL # <<>>
  /\ c.API.Timeout # 0
  /\ InRange(c.API.RetryCount, 0, 10)
  /\ InRange(c.API.MaxIdleConn, 1, 100)
  /\ InRange(c.Auth.TokenExpiry, 300, 86400)
  /\ InRange(c.Auth.RefreshThreshold, 60, 3600)
  /\ InRange(c.Auth.MaxLoginAttempts, 1, 10)
  /\ InRange(c.Auth.LockoutDuration, 60, 86400)
  /\ InRange(c.Auth.SessionTimeout, 300, 86400)
  /\ InRange(c.Auth.RememberMeDuration, 3600, 2592000)
  /\ c.Log.Level \in {<<"d", "e", "b", "u", "g">>, <<"i", "n", "f", "o">>, <<"w", "a", "r", "n">>, <<"e", "r", "r", "o", "r">>}
  /\ c.Log.Format \in {<<"j", "s", "o", "n">>, <<"t", "e", "x", "t">>}
  /\ c.Log.Output \in {<<"c", "o", "n", "s", "o", "l", "e">>, <<"f", "i", "l", "e">>, <<"b", "o", "t", "h">>}
  /\ InRange(c.Log.MaxSize, 1, 1000)
  /\ InRange(c.Log.MaxBackups, 0, 100)
  /\ InRange(c.Log.MaxAge, 1, 365)
  /\ c.Database.Host # <<>>
  /\ InRange(c.Database.Port, 1, 65535)
  /\ InRange(Len(c.Database.Name), 1, 100)
  /\ c.Database.SSLMode \in {<<"d", "i", "s", "a", "b", "l", "e">>, <<"r", "e", "q", "u", "i", "r", "e">>, <<"v", "e", "r", "i", "f", "y", "-", "c", "a">>, <<"v", "e", "r", "i", "f", "y", "-", "f", "u", "l", "l">>}
  /\ InRange(c.Database.MaxOpenConns, 1, 100)
  /\ InRange(c.Database.MaxIdleConns, 1, 100)
  /\ InRange(c.Database.ConnLifetime, 60, 86400)
  /\ InRange(c.Security.RateLimitRPS, 1, 10000)
  /\ InRange(c.Security.RateLimitBurst, 1, 1000)
  /\ InRange(c.Window.Width, 400, 4000)
  /\ InRange(c.Window.Height, 300, 3000)
  /\ InRange(c.Cache.TTL, 1, 86400)
  /\ InRange(c.Cache.MaxSize, 1, 10000)
  /\ InRange(c.Cache.MaxItems, 100, 1000000)
  /\ c.Cache.EvictionPolicy \in {<<"l", "r", "u">>, <<"l", "f", "u">>, <<"f", "i", "f", "o">>}

\* The environment text a load has to go by: APP_ENV, or app.environment of
\* config.ini when APP_ENV is unset.
GivenEnvironment ==
  IF appEnv # <<>> THEN appEnv ELSE configFile.kv[<<"app", "environment">>]

\* C14: every published snapshot meets every structural constraint
\* (required fields, numeric and duration ranges, enumerations matched
\* case-sensitively), before and after LoadSecureConfig has applied the
\* security defaults to it; a load given an environment that is not one of
\* the three values fails on App.Environment and publishes nothing.
C14_PublishedIsStructural ==
  /\ instance # 0 => Structural(At(instance))
  /\ ( /\ result.op \in Loaders \cup {"LoadSecureConfig"}
       /\ pc = "idle"
       /\ configFile.status = "ok"
       /\ GivenEnvironment \notin {<<>>, <<"d", "e", "v", "e", "l", "o", "p", "m", "e", "n", "t">>, <<"s", "t", "a", "g", "i", "n", "g">>, <<"p", "r", "o", "d", "u", "c", "t", "i", "o", "n">>} )
       => /\ result.stage = "validation"
          /\ <<<<"App", "Environment">>, "oneof">> \in result.fields
          /\ instance = 0

\* A snapshot from a file with in-range values of its own has had the
\* security defaults applied in production.
C14_Witness ==
  /\ instance # 0
  /\ result.op = "LoadSecureConfig"
  /\ result.stage = "none"
  /\ At(instance).App.Environment = Production
  /\ At(instance).Security.RateLimitRPS = 7
  /\ At(instance).Database.SSLMode = SSLVerifyFull

FileEnvironment == configFile.kv[<<"app", "environment">>]

\* A load has just published from config.ini and APP_ENV as they are.
Published ==
  /\ result.op = "LoadConfig"
  /\ pc = "idle"
  /\ result.stage = "none"
  /\ instance # 0

\* C15 (as claimed): APP_ENV selects the Environment only when config.ini
\* does not set app.environment; a value set in config.ini is the resolved
\* Environment, and with neither the Environment is development.
C15_SourceBeforeVariable ==
  Published
    => At(instance).App.Environment =
         IF FileEnvironment # <<>> THEN FileEnvironment
         ELSE IF appEnv # <<>> THEN appEnv
         ELSE <<"d", "e", "v", "e", "l", "o", "p", "m", "e", "n", "t">>

\* C15 (amended): APP_ENV, when it is set and not empty, is the resolved
\* Environment whatever config.ini sets; app.environment of config.ini is
\* the resolved Environment only when APP_ENV is unset or empty, and with
\* neither the Environment is development.
C15_VariableBeforeSource ==
  Published
    => At(instance).App.Environment =
         IF appEnv # <<>> THEN appEnv
         ELSE IF FileEnvironment # <<>> THEN FileEnvironment
         ELSE <<"d", "e", "v", "e", "l", "o", "p", "m", "e", "n", "t">>

\* A production snapshot was published from a config.ini that sets staging.
C15_Witness ==
  /\ Published
  /\ FileEnvironment = <<"s", "t", "a", "g", "i", "n", "g">>
  /\ appEnv = <<"p", "r", "o", "d", "u", "c", "t", "i", "o", "n">>
  /\ At(instance).App.Environment = <<"p", "r", "o", "d", "u", "c", "t", "i", "o", "n">>

OriginsText == configFile.kv[<<"security", "cors_origins">>]

Commas(text) == Cardinality({i \in 1..Len(text) : text[i] = ","})

Trimmed(element) ==
  element = <<>> \/ (element[1] # " " /\ element[Len(element)] # " ")

\* origins is what the comma-separated text stands for.
SplitAndTrimmed(text, origins) ==
  /\ text = <<>> => origins = <<>>
  /\ text # <<>> => Len(origins) = Commas(text) + 1
  /\ \A i \in 1..Len(origins) : Trimmed(origins[i])
  /\ text = <<"h", "t", "t", "p", ":", "/", "/", "a", ".", "t", "e", "s", "t", ":", "1", ",", " ", "h", "t", "t", "p", ":", "/", "/", "b", ".", "t", "e", "s", "t", ":", "2">>
       => origins = << <<"h", "t", "t", "p", ":", "/", "/", "a", ".", "t", "e", "s", "t", ":", "1">>, <<"h", "t", "t", "p", ":", "/", "/", "b", ".", "t", "e", "s", "t", ":", "2">> >>
  /\ text = <<"h", "t", "t", "p", ":", "/", "/", "a", ".", "t", "e", "s", "t", ":", "1", " ", ",", "h", "t", "t", "p", ":", "/", "/", "l", "o", "c", "a", "l", "h", "o", "s", "t", ",">>
       => origins = << <<"h", "t", "t", "p", ":", "/", "/", "a", ".", "t", "e", "s", "t", ":", "1">>, <<"h", "t", "t", "p", ":", "/", "/", "l", "o", "c", "a", "l", "h", "o", "s", "t">>, <<>> >>

\* C17: the allowed origins are the comma-separated parts of
\* security.cors_origins, each trimmed of surrounding blanks: as many
\* elements as parts, none with a leading or trailing blank, and no element
\* at all for an empty text.
C17_ListSplitAndTrimmed ==
  Published => SplitAndTrimmed(OriginsText, At(instance).Security.CORSOrigins)

\* A snapshot holds the two origins of a text with a comma and a blank.
C17_Witness ==
  /\ Published
  /\ OriginsText = <<"h", "t", "t", "p", ":", "/", "/", "a", ".", "t", "e", "s", "t", ":", "1", ",", " ", "h", "t", "t", "p", ":", "/", "/", "b", ".", "t", "e", "s", "t", ":", "2">>
  /\ Len(At(instance).Security.CORSOrigins) = 2

\* A step of LoadSecureConfig that returns no error, on a published snapshot.
SecureStep ==
  /\ pc = "idle"
  /\ pc' = "idle"
  /\ instance # 0
  /\ result'.op = "LoadSecureConfig"
  /\ result'.stage = "none"
  /\ instance' = instance

Base64URLChars == Letters \cup Digits \cup {"-", "_"}

\* after is what LoadSecureConfig made of the secret before.
SecretDefaulted(enabled, before, after) ==
  /\ (enabled /\ before = <<>>)
       => /\ after # <<>>
          /\ Len(after) >= 32
          /\ \A i \in 1..Len(after) : after[i] \in Base64URLChars
  /\ before # <<>> => after = before
  /\ ~enabled => after = before

\* C18: LoadSecureConfig on a snapshot with CSRF enabled and no secret
\* leaves it with a secret of 32 characters or more of the base64url
\* alphabet; a configured secret is left as it is, and with CSRF disabled
\* no secret is generated.
C18_SecretGenerated ==
  [][ SecureStep
        => /\ heap'[instance][1].Security.CSRFEnabled
                = heap[instance][1].Security.CSRFEnabled
           /\ SecretDefaulted(heap[instance][1].Security.CSRFEnabled,
                              heap[instance][1].Security.CSRFSecret,
                              heap'[instance][1].Security.CSRFSecret) ]_vars

\* LoadSecureConfig has generated a secret for a snapshot that had none.
C18_Witness ==
  /\ result.op = "LoadSecureConfig"
  /\ result.stage = "none"
  /\ instance # 0
  /\ At(instance).Security.CSRFEnabled
  /\ configFile.kv[<<"security", "csrf_secret">>] = <<>>
  /\ Len(At(instance).Security.CSRFSecret) = 64
  /\ \E i \in 1..Len(result.printed) :
       result.printed[i][2] = "Generated secure CSRF secret"

\* after is what LoadSecureConfig made of the Config before, in production
\* and elsewhere.
ProductionHardened(before, after) ==
  /\ ~after.App.Debug
  /\ ~after.App.DevTools
  /\ after.Security.RateLimitEnabled
  /\ after.Security.RateLimitRPS =
       IF before.Security.RateLimitEnabled THEN before.Security.RateLimitRPS ELSE 100
  /\ after.Security.RateLimitBurst =
       IF before.Security.RateLimitEnabled THEN before.Security.RateLimitBurst ELSE 200
  /\ after.Database.SSLMode =
       IF before.Database.SSLMode = <<"d", "i", "s", "a", "b", "l", "e">> THEN <<"r", "e", "q", "u", "i", "r", "e">>
       ELSE before.Database.SSLMode

NotHardened(before, after) ==
  /\ after.App = before.App
  /\ after.Security.RateLimitEnabled = before.Security.RateLimitEnabled
  /\ after.Security.RateLimitRPS = before.Security.RateLimitRPS
  /\ after.Security.RateLimitBurst = before.Security.RateLimitBurst
  /\ after.Database = before.Database

\* Nothing but the fields of the security defaults differs.
RestUnchanged(before, after) ==
  [after EXCEPT !.App.Debug = before.App.Debug,
                !.App.DevTools = before.App.DevTools,
                !.App.HotReload = before.App.HotReload,
                !.Security = before.Security,
                !.Database.SSLMode = before.Database.SSLMode] = before

\* C19: in production LoadSecureConfig forces debug and dev-tools off,
\* switches the rate limit on with 100 requests/s and burst 200 unless it is
\* already on (then rate and burst are kept), and turns database SSL mode
\* disable into require (other modes are kept); outside production none of
\* these fields changes.
C19_ProductionDefaults ==
  [][ SecureStep
        => /\ IF heap[instance][1].App.Environment = <<"p", "r", "o", "d", "u", "c", "t", "i", "o", "n">>
                THEN ProductionHardened(heap[instance][1], heap'[instance][1])
                ELSE NotHardened(heap[instance][1], heap'[instance][1])
           /\ RestUnchanged(heap[instance][1], heap'[instance][1]) ]_vars

\* LoadSecureConfig has kept an enabled rate limit of 7 requests/s in
\* production and switched debug off.
C19_Witness ==
  /\ result.op = "LoadSecureConfig"
  /\ result.stage = "none"
  /\ instance # 0
  /\ At(instance).App.Environment = Production
  /\ At(instance).Security.RateLimitEnabled
  /\ At(instance).Security.RateLimitRPS = 7
  /\ At(instance).Security.RateLimitBurst = 500
  /\ configFile.kv[<<"app", "debug">>] = <<>>
       \/ configFile.kv[<<"app", "debug">>] = <<"f", "a", "l", "s", "e">>

\* config.ini cannot be loaded as it is: it is missing, or it holds the
\* window width 7.
BrokenSource ==
  \/ configFile.status # "ok"
  \/ configFile.kv[<<"window", "width">>] = <<"7">>

\* C20: when LoadConfig fails at startup, main reports the error and the
\* process halts without the App or the window; the process gets to run
\* only with the valid Config loaded from config.ini, never with defaults
\* in place of a broken file, and a halted process does nothing more.
C20_StartupHaltsOnFailure ==
  [][ /\ (phase = "start" /\ phase' # "start" /\ BrokenSource)
        => /\ phase' = "halted"
           /\ result'.op = "main"
           /\ result'.stage \in {"source", "validation"}
           /\ result'.fatal = "Failed to load configuration"
           /\ instance' = 0
           /\ appConfig' = 0
      /\ (phase = "start" /\ phase' = "running")
        => /\ result'.stage = "none"
           /\ instance' # 0
           /\ appConfig' = instance'
           /\ Structural(heap'[instance'][1])
           /\ heap'[instance'][1].API.BaseURL = configFile.kv[<<"api", "base_url">>]
           /\ heap'[instance'][1].API.BaseURL # <<>>
      /\ phase = "halted"
        => /\ phase' = "halted"
           /\ UNCHANGED <<instance, appConfig, result, heap, iniConfig, dirs>> ]_vars

\* main has halted on a missing config.ini.
C20_Witness ==
  /\ phase = "halted"
  /\ result.op = "main"
  /\ result.stage = "source"
  /\ result.fatal = "Failed to load configuration"
  /\ instance = 0
  /\ appConfig = 0
\* A non-negative integer in decimal digits.
BareInteger(text) == text # <<>> /\ AllIn(text, Digits)

\* config.ini with the unit "s" written after the value of key k.
Suffixed(k) == WithEdits(configFile.kv, {<<k, configFile.kv[k] \o <<"s">>>>})

\* C16: for every duration key whose text in config.ini is a non-negative
\* integer N, the published snapshot holds for that field the same duration
\* as a load of the same config.ini with the text "Ns" in place of "N".
C16_SuffixedEqualsBare ==
  Published
    => \A k \in DurationKeys :
         BareInteger(configFile.kv[k])
           => FieldOf(At(instance), k)
                = FieldOf(NewConfig(<<Suffixed(k)>>, appEnv), k)
\* C21: when config.ini does not set api.user_agent, the published
\* snapshot's user agent is "<application name>/<application version>".
C21_UserAgentDerived ==
  (Published /\ configFile.kv[<<"api", "user_agent">>] = <<>>)
    => At(instance).API.UserAgent
         = At(instance).App.Name \o <<"/">> \o At(instance).App.Version
\* A load has run in this step and published a snapshot.
RanLoad ==
  /\ instance = 0
  /\ instance' # 0
  /\ result'.op \in Loaders \cup {"main"}

\* The snapshot a step publishes.
Snapshot == heap'[instance'][1]

\* The lines of printed that start with prefix.
LinesOf(printed, prefix) == SelectSeq(printed, LAMBDA l : l[1] = prefix)

\* C22: on every load that publishes, the Environment that selects the
\* environment rule set is the snapshot's App.Environment: the environment
\* findings printed are those of the rule set of App.Environment.
C22_RuleSetOfSnapshot ==
  [][ RanLoad
        => /\ EnvOrDevelopment(appEnv) = Snapshot.App.Environment
           /\ LinesOf(result'.printed, "Environment Validation Error: ")
                = Lines("Environment Validation Error: ",
                        ValidateEnvironment(Snapshot.App.Environment, Snapshot)) ]_vars
\* The Config a validator was called on.
Subject == heap[result.config][1]

\* The texts of the findings a validator returned.
ReturnedTexts == {result.returned[i][1] : i \in 1..Len(result.returned)}

LocalHost(url) == Contains(url, <<"l", "o", "c", "a", "l", "h", "o", "s", "t">>) \/ Contains(url, <<"1", "2", "7", ".", "0", ".", "0", ".", "1">>)

\* The rows of the environment policy: environment, finding, and whether
\* the Config c passes the check.
PolicyChecks(c) ==
  { <<Development, "Debug mode should be enabled in development", c.App.Debug>>,
    <<Development, "Development should typically use localhost or test API URLs",
      LocalHost(c.API.BaseURL) \/ Contains(c.API.BaseURL, <<"t", "e", "s", "t">>)>>,
    <<Staging, "Staging should not use localhost API URLs",
      ~LocalHost(c.API.BaseURL)>>,
    <<Staging, "API timeout is too low for staging environment",
      c.API.Timeout >= 10 * Second>>,
    <<Production, "Debug mode must be disabled in production", ~c.App.Debug>>,
    <<Production, "Dev tools must be disabled in production", ~c.App.DevTools>>,
    <<Production, "Production must use HTTPS API URLs",
      SubSeq(c.API.BaseURL, 1, 8) = <<"h", "t", "t", "p", "s", ":", "/", "/">>>>,
    <<Production, "Database SSL must be enabled in production",
      c.Database.SSLMode # <<"d", "i", "s", "a", "b", "l", "e">>>>,
    <<Production, "Rate limiting should be enabled in production",
      c.Security.RateLimitEnabled>> }

ViolatedChecks(environment, c) ==
  {row[2] : row \in {r \in PolicyChecks(c) : r[1] = environment /\ ~r[3]}}

\* C23: the environment validator returns one finding for each violated
\* check of the row of its environment, and nothing else: development checks
\* debug on and a local or test API URL; staging a non-local API URL and a
\* timeout of 10 seconds or more; production debug off, dev tools off, an
\* https API URL, database SSL not disabled and rate limiting on.
C23_ExactlyViolatedChecks ==
  result.op = "ValidateEnvironment"
    => /\ ReturnedTexts = ViolatedChecks(result.environment, Subject)
       /\ Len(result.returned)
            = Cardinality(ViolatedChecks(result.environment, Subject))

\* A production validator has returned the five findings of its row, and no
\* other, for a Config that breaks both checks of the staging row as well.
C23_Witness ==
  /\ result.op = "ValidateEnvironment"
  /\ result.environment = Production
  /\ Len(result.returned) = 5
  /\ Subject.API.Timeout < 10 * Second
  /\ LocalHost(Subject.API.BaseURL)
\* The origins of OriginLists that have the shape scheme://host[:port].
WellFormedOrigins ==
  { <<"h", "t", "t", "p", ":", "/", "/", "a", ".", "t", "e", "s", "t", ":", "1">>, <<"h", "t", "t", "p", ":", "/", "/", "l", "o", "c", "a", "l", "h", "o", "s", "t">>, <<"h", "t", "t", "p", "s", ":", "/", "/", "1", "2", "7", ".", "0", ".", "0", ".", "1", ":", "8", "0", "8", "0">> }

Wildcard == <<"*">>

\* The findings returned that are about the origin o.
FindingsAbout(o) ==
  {i \in 1..Len(result.returned) : result.returned[i][2] = o}

\* C24: with CORS enabled the security validator returns a warning for each
\* configured origin that is not of the shape scheme://host[:port] and none
\* for a well-formed one; the wildcard * is accepted as an origin and is
\* flagged by a finding of its own; with CORS disabled no origin is checked.
C24_OriginFindings ==
  result.op = "ValidateSecuritySettings"
    => IF Subject.Security.CORSEnabled
         THEN \A i \in 1..Len(Subject.Security.CORSOrigins) :
                IF Subject.Security.CORSOrigins[i] \in WellFormedOrigins
                  THEN FindingsAbout(Subject.Security.CORSOrigins[i]) = {}
                ELSE IF Subject.Security.CORSOrigins[i] = Wildcard
                  THEN /\ <<"Invalid CORS origin: %s", Wildcard>> \notin
                            {result.returned[j] : j \in 1..Len(result.returned)}
                       /\ FindingsAbout(Wildcard) # {}
                ELSE \E j \in 1..Len(result.returned) :
                       result.returned[j]
                         = <<"Invalid CORS origin: %s",
                             Subject.Security.CORSOrigins[i]>>
         ELSE \A j \in 1..Len(result.returned) :
                result.returned[j][1] # "Invalid CORS origin: %s"
\* The number of findings returned whose text is one of texts.
Count(texts) ==
  Cardinality({i \in 1..Len(result.returned) : result.returned[i][1] \in texts})

One(condition) == IF condition THEN 1 ELSE 0

\* C25: whatever the environment, the security validator returns a warning
\* when CORS is enabled with no origin; exactly one warning when CSRF is
\* enabled and the secret is empty or shorter than 32 characters, none when
\* it has 32 or more or CSRF is disabled; and one warning for each of the
\* rate and the burst that is not positive while rate limiting is enabled,
\* none when it is disabled.
C25_GeneralWarnings ==
  result.op = "ValidateSecuritySettings"
    => /\ Count({"CORS is enabled but no origins are specified"})
            = One(Subject.Security.CORSEnabled
                    /\ Len(Subject.Security.CORSOrigins) = 0)
       /\ Count({"CSRF is enabled but no secret is provided",
                 "CSRF secret should be at least 32 characters long"})
            = One(Subject.Security.CSRFEnabled
                    /\ Len(Subject.Security.CSRFSecret) < 32)
       /\ Count({"Rate limiting is enabled but RPS is not positive"})
            = One(Subject.Security.RateLimitEnabled
                    /\ Subject.Security.RateLimitRPS <= 0)
       /\ Count({"Rate limiting is enabled but burst is not positive"})
            = One(Subject.Security.RateLimitEnabled
                    /\ Subject.Security.RateLimitBurst <= 0)

\* In staging, the validator has returned the four warnings and no other:
\* no origin, an empty secret, a rate of zero and a negative burst.
C25_Witness ==
  /\ result.op = "ValidateSecuritySettings"
  /\ Subject.App.Environment = Staging
  /\ Subject.Security.CSRFSecret = <<>>
  /\ Len(result.returned) = 4
  /\ Count({"CORS is enabled but no origins are specified",
            "CSRF is enabled but no secret is provided",
            "Rate limiting is enabled but RPS is not positive",
            "Rate limiting is enabled but burst is not positive"}) = 4
\* The origins of c that name the local host, when CORS is enabled (with
\* CORS disabled no origin is checked).
LoopbackOrigins(c) ==
  IF c.Security.CORSEnabled
    THEN {i \in 1..Len(c.Security.CORSOrigins) :
            LocalHost(c.Security.CORSOrigins[i])}
    ELSE {}

C26_WitnessStaging ==
  /\ result.op = "ValidateSecuritySettings"
  /\ Subject.App.Environment = <<"s", "t", "a", "g", "i", "n", "g">>
  /\ LoopbackOrigins(Subject) # {}
  /\ Subject.Database.SSLMode = <<"d", "i", "s", "a", "b", "l", "e">>
  /\ Subject.API.Timeout > 60 * Second
\* The attempts of the call of Login: the client.Do that returned.
Attempts == {i \in 1..Len(login.trace) : login.trace[i][1] # "sleep"}

\* Attempts and sleeps alternate, an attempt first and last, and each sleep
\* lasts the configured retry delay.
SleepsBetweenAttempts ==
  /\ Len(login.trace) % 2 = 1
  /\ \A i \in 1..Len(login.trace) :
       IF i % 2 = 1 THEN i \in Attempts
       ELSE login.trace[i] = <<"sleep", AppAPI.RetryDelay>>

LoginRetriesBounded ==
  login.pc = "returned"
    => /\ 1 <= Cardinality(Attempts)
       /\ Cardinality(Attempts) <= AppAPI.RetryCount + 1
       /\ (\A i \in Attempts : login.trace[i][1] \in {"error", "server"})
            => Cardinality(Attempts) = AppAPI.RetryCount + 1
       /\ SleepsBetweenAttempts

\* C27: Login makes at least one and at most RetryCount + 1 attempts,
\* exactly RetryCount + 1 when every attempt fails (transport error or
\* status >= 500), sleeps the configured retry delay between two attempts
\* and not after the last, and always returns.
C27_LoginRetriesAndReturns ==
  /\ []LoginRetriesBounded
  /\ (login.pc = "do") ~> (login.pc = "returned")
\* The outcome of the last attempt made.
LastAttempt == login.trace[Len(login.trace)][1]

\* C28: Login stops at the first attempt that ends in a response of status
\* below 500 (nothing is attempted after it); it returns a response only if
\* the envelope parsed from the body has success = true; when the last
\* attempt ends in a transport error it returns an error and no response,
\* and an envelope with success = false always gives an error.
C28_LoginOutcome ==
  /\ \A i \in 1..Len(login.trace) :
       login.trace[i][1] = "answer" => i = Len(login.trace)
  /\ login.pc = "returned"
       => /\ login.ret \in {"response", "error"}
          /\ login.ret = "response"
               => login.body = "success" /\ LastAttempt # "error"
          /\ LastAttempt = "error"
               => login.ret = "error" /\ login.body = "none"
          /\ login.body = "failure" => login.ret = "error"

\* Login has returned the response of its second attempt, the first having
\* ended in a transport error.
C28_Witness ==
  /\ login.pc = "returned"
  /\ login.ret = "response"
  /\ Len(login.trace) = 3
  /\ login.trace[1][1] = "error"
  /\ login.trace[3][1] = "answer"
  /\ AppAPI.RetryCount = 2

\* Login has returned an error for an envelope with success = false that
\* came with a status of 500 or more on the last attempt allowed.
C28_WitnessFailure ==
  /\ login.pc = "returned"
  /\ login.ret = "error"
  /\ login.body = "failure"
  /\ LastAttempt = "server"
\* C29: once NewApp has succeeded, and whatever calls of App.ReloadConfig
\* have succeeded or failed since, the App and the package hold the same
\* snapshot: App.GetConfig (the public projection of the published
\* instance) does not panic, and its name, version, environment and debug
\* are those App.GetAppInfo, GetEnvironment and IsDebugMode read from
\* a.config.
C29_AppAgreesWithSingleton ==
  [][ (GetPublicConfig /\ appConfig # 0 /\ pc = "idle")
        => /\ ~result'.panic
           /\ instance = appConfig
           /\ result'.public # <<>>
           /\ result'.public[1].App = GetAppInfo(heap[appConfig][1]) ]_vars
\* The requests whose promise is in failedQueue.
Queued == {r \in Requests : InQueue(client.failedQueue, r)}

\* C30: at most one token refresh is in flight; a 401 that arrives during a
\* refresh is queued and starts no refresh; when the refresh finishes every
\* queued request is settled (sent again with the new token when the
\* refresh succeeded, rejected when it failed), the queue is empty and
\* isRefreshing is false; when the refresh failed the tokens are cleared
\* and auth:logout is emitted.
C30_SingleRefresh ==
  [][ /\ client.refreshes <= 1
      /\ (Respond401 /\ client.isRefreshing)
           => client'.refreshes = client.refreshes
      /\ (client.isRefreshing /\ ~client'.isRefreshing)
           => /\ client'.failedQueue = <<>>
              /\ \A r \in Queued :
                   \/ /\ client'.st[r] = "sent"
                      /\ client'.accessToken # 0
                      /\ client'.auth[r] = client'.accessToken
                      /\ client'.logouts = client.logouts
                   \/ /\ client'.st[r] = "rejected"
                      /\ client'.logouts = client.logouts + 1
              /\ client'.logouts = client.logouts + 1
                   => client'.accessToken = 0 /\ client'.refreshToken = 0
              /\ client'.logouts \in {client.logouts, client.logouts + 1} ]_vars

====
